---- MODULE Spec2Model ----
(***************************************************************************)
(* Cost governance of amp-eval: the circuit breaker of                     *)
(* src/amp_eval/rate_limiter.py and the quota gate of                      *)
(* src/amp_eval/quota_enforcer.py over the usage ledger of                 *)
(* src/amp_eval/cost_tracking.py.                                          *)
(*                                                                         *)
(* Time is in whole seconds.  Every handler reads the clock once: the      *)
(* several time.time() calls of one handler see the same instant.  Money   *)
(* is exact: breaker costs are whole units, ledger costs are in units of   *)
(* 10^-7 USD, so that every price of MODEL_COSTS is a whole number per     *)
(* token; the IEEE rounding of the Python floats is not modelled.          *)
(***************************************************************************)
EXTENDS Integers, Sequences, FiniteSets, TLC

VARIABLES
    now,        \* time.time()
    cfg,        \* CircuitBreaker.config
    cb,         \* the CircuitBreaker object: its fields and its RequestStats
    ret,        \* history: the last breaker call and, for can_request, its arguments and result
    consec,     \* history: record_failure calls since the last record_success
    cleanRun,   \* history: record_failure calls since CLOSED with counter 0, -1 once a success intervened
    hoSucc,     \* history: while HALF_OPEN, the record_success calls since it was entered; else 0
    reopenTime, \* history: while OPEN, the time of the failure that reopened it from HALF_OPEN; else -1
    policy,     \* CostTracker.budget_limits
    ledger,     \* the rows of the cost_records table, in insertion order
    qret,       \* history: the last ledger or quota call, its arguments and its result
    rlcfg,      \* RateLimiter.config
    rl,         \* the RateLimiter object: its request_times
    rlpc,       \* where the limiter's caller is: before wait_if_needed or before record_request
    rlh,        \* history: the last limiter call, the seconds it slept, the requests recorded, the clock steps
    bo,         \* the frame of the exponential_backoff wrapper
    bolog,      \* history: the calls and the sleeps of one run of the wrapper, in order
    audit,      \* the rows of the audit_events table, in insertion order
    aret,       \* history: what the last call of the audit logger raised
    wr,         \* the frames of the rate_limited wrapper, one per worker: where it is, its estimates, what it has called
    wrh,        \* history: the invocations of the wrapper begun and the clock steps taken
    pin,        \* the arguments of the last call of a function that touches no object
    pout,       \* what that call returned
    pend,       \* the estimates of the call can_request has admitted and record_success has not yet accounted, for the breaker's one caller
    admitted,   \* history: the time and the estimates of every call can_request has admitted
    th,         \* the frames of the workers' threads, one per worker: the call it is in, where it is in it and its locals
    locks,      \* the holder of CostTracker._lock and of CircuitBreaker._lock
    booked      \* history: the calls that have returned, what they contributed, and the calls begun while another thread was in the same method

cbVars == <<cfg, cb, ret, consec, cleanRun, hoSucc, reopenTime>>

qgVars == <<policy, ledger, qret>>

rlVars == <<rlcfg, rl, rlpc, rlh>>

boVars == <<bo, bolog>>

auVars == <<audit, aret>>

wrVars == <<wr, wrh>>

pfVars == <<pin, pout>>

roVars == <<pend, admitted>>

thVars == <<th, locks, booked>>

vars == <<now, cfg, cb, ret, consec, cleanRun, hoSucc, reopenTime,
          policy, ledger, qret, rlcfg, rl, rlpc, rlh, bo, bolog, audit, aret,
          wr, wrh,
          pin, pout,
          pend, admitted,
          th, locks, booked>>

----------------------------------------------------------------------------
(* Bounds of the model *)

\* the clock reads StartTime when the breaker is constructed
StartTime == 100
\* one-second steps of the clock in one behaviour
Slack == 2
\* record_success calls in one behaviour
MaxSuccesses == 2
\* record_failure calls in one behaviour
MaxFailures == 2
\* rows the ledger holds
MaxRecords == 2
\* steps of the ledger's clock, of an hour or of a day each
MaxLedgerTicks == 1
\* requests the limiter's caller makes
MaxRequests == 4
\* steps of the limiter's clock between requests
MaxRLTicks == 3
\* the largest max_retries the backoff decorator is given
MaxRetries == 3
\* rows the audit log holds
MaxAuditRows == 2
\* invocations of wrapped functions, over all workers
MaxInvocations == 3
\* clock steps while wrapped functions are called
MaxWrapTicks == 2
\* the largest context utilization, in thousandths
MaxUtilization == 1100
\* calls can_request admits to the breaker's one caller
MaxAdmitted == 3

\* calls one worker thread makes
MaxJobs == 2

(* Program constants *)

\* the length of the hourly statistics window, in seconds
HourWindow == 3600
\* timedelta(hours=1) and timedelta(days=1), in seconds
HourSeconds == 3600
DaySeconds == 86400

CLOSED == "closed"
OPEN == "open"
HALF_OPEN == "half_open"

----------------------------------------------------------------------------
(* The usage ledger: CostTracker *)

\* A ratio num/den with den > 0; x / y > p is decided exactly.
Ratio(n, d) == [num |-> n, den |-> d]
RatioGT(r, p) == r.num * p.den > p.num * r.den

\* MODEL_COSTS.  A price per 1000 tokens is in units of 10^-4 USD, so that
\* (tokens / 1000) * price is tokens * price in units of 10^-7 USD.
MODEL_COSTS ==
    [m \in {"sonnet-4", "gpt-5", "o3", "gpt-4o"} |->
        CASE m = "sonnet-4" -> [input_cost_per_1k |-> 30, output_cost_per_1k |-> 150,
                                context_window |-> 200000, max_output |-> 4096]
          [] m = "gpt-5"    -> [input_cost_per_1k |-> 100, output_cost_per_1k |-> 300,
                                context_window |-> 128000, max_output |-> 4096]
          [] m = "o3"       -> [input_cost_per_1k |-> 400, output_cost_per_1k |-> 1200,
                                context_window |-> 200000, max_output |-> 65536]
          [] m = "gpt-4o"   -> [input_cost_per_1k |-> 25, output_cost_per_1k |-> 100,
                                context_window |-> 128000, max_output |-> 16384]]

\* MODEL_COSTS.get(model, {}).get("context_window", 128000)
context_window(model) ==
    IF model \in DOMAIN MODEL_COSTS THEN MODEL_COSTS[model].context_window
    ELSE 128000

\* BudgetLimits: the limits the tracker is configured with, in units of
\* 10^-7 USD and in tokens (0.10 USD a day, 0.15 USD a month)
BudgetLimits ==
    [daily_cost_limit |-> 1000000,
     monthly_cost_limit |-> 1500000,
     hourly_token_limit |-> 3000,
     daily_token_limit |-> 4000,
     max_context_utilization |-> Ratio(9, 10),
     cost_alert_threshold |-> Ratio(8, 10)]

\* a cost_limits.json that sets 1.00 USD a day and 10.00 USD a month and keeps
\* the token limits of BudgetLimits(): 100000 an hour, 1000000 a day
DollarLimits ==
    [daily_cost_limit |-> 10000000,
     monthly_cost_limit |-> 100000000,
     hourly_token_limit |-> 100000,
     daily_token_limit |-> 1000000,
     max_context_utilization |-> Ratio(9, 10),
     cost_alert_threshold |-> Ratio(8, 10)]

\* the limits _load_budget_limits may return
Policies == {BudgetLimits, DollarLimits}

\* TokenUsage and its __post_init__
TokenUsage(input_tokens, output_tokens, total_tokens, used, limit) ==
    [input_tokens |-> input_tokens,
     output_tokens |-> output_tokens,
     total_tokens |-> IF total_tokens = 0 THEN input_tokens + output_tokens
                      ELSE total_tokens,
     context_window_used |-> used,
     context_window_limit |-> limit]

calculate_cost(model, token_usage) ==
    LET known == model \in DOMAIN MODEL_COSTS
        input_cost_per_1k == IF known THEN MODEL_COSTS[model].input_cost_per_1k ELSE 10
        output_cost_per_1k == IF known THEN MODEL_COSTS[model].output_cost_per_1k ELSE 30
        input_cost == token_usage.input_tokens * input_cost_per_1k
        output_cost == token_usage.output_tokens * output_cost_per_1k
    IN  [input_cost |-> input_cost, output_cost |-> output_cost,
         total_cost |-> input_cost + output_cost]

\* the indicator, "none" for None
assess_context_degradation(model, token_usage) ==
    IF model \notin DOMAIN MODEL_COSTS THEN "none"
    ELSE LET utilization == Ratio(token_usage.context_window_used,
                                  MODEL_COSTS[model].context_window)
         IN  IF RatioGT(utilization, Ratio(95, 100)) THEN "critical_context_usage"
             ELSE IF RatioGT(utilization, Ratio(85, 100)) THEN "high_context_usage"
             ELSE IF RatioGT(utilization, Ratio(7, 10)) THEN "moderate_context_usage"
             ELSE "none"

\* SELECT SUM(total_cost) FROM cost_records, without the WHERE clause
RECURSIVE get_cost_since_all(_, _)
get_cost_since_all(rows, timestamp) ==
    IF rows = <<>> THEN 0
    ELSE Head(rows).total_cost + get_cost_since_all(Tail(rows), timestamp)

\* the SELECT run on a connection that sees none of the rows
get_cost_since_unseen(rows, timestamp) == 0

\* SELECT SUM(total_cost) FROM cost_records WHERE timestamp > ?
RECURSIVE get_cost_since(_, _)
get_cost_since(rows, timestamp) ==
    IF rows = <<>> THEN 0
    ELSE (IF Head(rows).timestamp > timestamp THEN Head(rows).total_cost ELSE 0)
         + get_cost_since(Tail(rows), timestamp)

\* SELECT SUM(total_tokens) FROM cost_records WHERE timestamp > ?
RECURSIVE get_tokens_since(_, _)
get_tokens_since(rows, timestamp) ==
    IF rows = <<>> THEN 0
    ELSE (IF Head(rows).timestamp > timestamp THEN Head(rows).total_tokens ELSE 0)
         + get_tokens_since(Tail(rows), timestamp)

\* _check_budget_limits: what it logs
check_budget_limits(rows, limits, t, cost_record) ==
    LET hourly_tokens == get_tokens_since(rows, t - HourSeconds)
        daily_cost == get_cost_since(rows, t - DaySeconds)
        daily_tokens == get_tokens_since(rows, t - DaySeconds)
    IN  (IF hourly_tokens > limits.hourly_token_limit
         THEN {"Hourly token limit exceeded"} ELSE {})
        \cup
        (IF daily_cost > limits.daily_cost_limit
         THEN {"Daily cost limit exceeded"}
         ELSE IF daily_cost * limits.cost_alert_threshold.den
                   > limits.daily_cost_limit * limits.cost_alert_threshold.num
         THEN {"Daily cost alert"} ELSE {})
        \cup
        (IF daily_tokens > limits.daily_token_limit
         THEN {"Daily token limit exceeded"} ELSE {})
        \cup
        (IF RatioGT(cost_record.context_utilization, limits.max_context_utilization)
         THEN {"High context utilization"} ELSE {})

\* record_usage with _check_budget_limits run before the INSERT
record_usage_checks_first(rows, limits, t, model, token_usage) ==
    LET cost == calculate_cost(model, token_usage)
        context_limit == context_window(model)
        cost_record ==
            [timestamp |-> t,
             model |-> model,
             input_tokens |-> token_usage.input_tokens,
             output_tokens |-> token_usage.output_tokens,
             total_tokens |-> token_usage.total_tokens,
             context_window_used |-> token_usage.context_window_used,
             context_window_limit |-> token_usage.context_window_limit,
             input_cost |-> cost.input_cost,
             output_cost |-> cost.output_cost,
             total_cost |-> cost.total_cost,
             context_utilization |->
                 IF context_limit > 0
                 THEN Ratio(token_usage.context_window_used, context_limit)
                 ELSE Ratio(0, 1),
             degradation_indicator |-> assess_context_degradation(model, token_usage)]
        inserted == Append(rows, cost_record)
    IN  [rows |-> inserted,
         cost_record |-> cost_record,
         logged |-> check_budget_limits(rows, limits, t, cost_record),
         raised |-> "none"]

\* record_usage: the table after the insert, the CostRecord returned, what
\* _check_budget_limits logs and the exception raised (none: the function has no
\* raise statement)
record_usage(rows, limits, t, model, token_usage) ==
    LET cost == calculate_cost(model, token_usage)
        context_limit == context_window(model)
        cost_record ==
            [timestamp |-> t,
             model |-> model,
             input_tokens |-> token_usage.input_tokens,
             output_tokens |-> token_usage.output_tokens,
             total_tokens |-> token_usage.total_tokens,
             context_window_used |-> token_usage.context_window_used,
             context_window_limit |-> token_usage.context_window_limit,
             input_cost |-> cost.input_cost,
             output_cost |-> cost.output_cost,
             total_cost |-> cost.total_cost,
             context_utilization |->
                 IF context_limit > 0
                 THEN Ratio(token_usage.context_window_used, context_limit)
                 ELSE Ratio(0, 1),
             degradation_indicator |-> assess_context_degradation(model, token_usage)]
        inserted == Append(rows, cost_record)
    IN  [rows |-> inserted,
         cost_record |-> cost_record,
         logged |-> check_budget_limits(inserted, limits, t, cost_record),
         raised |-> "none"]

\* record_evaluation_cost
record_evaluation_cost(rows, limits, t, model, input_tokens, output_tokens, context_used) ==
    record_usage(rows, limits, t, model,
                 TokenUsage(input_tokens, output_tokens, 0, context_used,
                            context_window(model)))

\* get_usage_stats(days).total_cost
usage_stats_total_cost(rows, t, days) == get_cost_since(rows, t - days * DaySeconds)

\* the rows DELETE FROM cost_records WHERE timestamp <= ? would leave
RECURSIVE RowsKeptInclusive(_, _)
RowsKeptInclusive(rows, cutoff_timestamp) ==
    IF rows = <<>> THEN <<>>
    ELSE (IF Head(rows).timestamp <= cutoff_timestamp THEN <<>> ELSE <<Head(rows)>>)
         \o RowsKeptInclusive(Tail(rows), cutoff_timestamp)

\* cleanup_old_records deleting the rows at the cutoff too
cleanup_old_records_inclusive(rows, t, retention_days) ==
    LET kept == RowsKeptInclusive(rows, t - retention_days * DaySeconds)
    IN  [rows |-> kept, deleted_count |-> Len(rows) - Len(kept)]

\* the rows DELETE FROM cost_records WHERE timestamp < ? leaves
RECURSIVE RowsKept(_, _)
RowsKept(rows, cutoff_timestamp) ==
    IF rows = <<>> THEN <<>>
    ELSE (IF Head(rows).timestamp < cutoff_timestamp THEN <<>> ELSE <<Head(rows)>>)
         \o RowsKept(Tail(rows), cutoff_timestamp)

\* cleanup_old_records: the table after the DELETE and cursor.rowcount
cleanup_old_records(rows, t, retention_days) ==
    LET cutoff_timestamp == t - retention_days * DaySeconds
        kept == RowsKept(rows, cutoff_timestamp)
    IN  [rows |-> kept, deleted_count |-> Len(rows) - Len(kept)]

\* CostTracker.check_quota_compliance: its usage_metrics
tracker_usage_metrics(rows, limits, t) ==
    [hourly_tokens |-> get_tokens_since(rows, t - HourSeconds),
     daily_cost |-> get_cost_since(rows, t - DaySeconds),
     daily_tokens |-> get_tokens_since(rows, t - DaySeconds)]

----------------------------------------------------------------------------
(* The quota gate: QuotaEnforcer *)

ALLOWED == "allowed"
WARNING == "warning"
BLOCKED == "blocked"

\* the estimated cost, in units of 10^-7 USD, and the estimated tokens
estimate_evaluation_cost(model, estimated_input_tokens, estimated_output_tokens) ==
    LET known == model \in DOMAIN MODEL_COSTS
        input_cost_per_1k == IF known THEN MODEL_COSTS[model].input_cost_per_1k ELSE 400
        output_cost_per_1k == IF known THEN MODEL_COSTS[model].output_cost_per_1k ELSE 1200
        input_cost == estimated_input_tokens * input_cost_per_1k
        output_cost == estimated_output_tokens * output_cost_per_1k
    IN  [total_cost |-> input_cost + output_cost,
         total_tokens |-> estimated_input_tokens + estimated_output_tokens]

\* the checks a QuotaCheck is decided by, as check_quota_compliance orders them;
\* blockContext and warnGT are the two places the variants below differ in
Decide(rows, limits, t, model, estimated_input_tokens, estimated_output_tokens, context_tokens, blockContext, warnGT) ==
    LET est == estimate_evaluation_cost(model, estimated_input_tokens,
                                        estimated_output_tokens)
        context_limit == context_window(model)
        context_utilization == IF context_limit > 0
                               THEN Ratio(context_tokens, context_limit)
                               ELSE Ratio(0, 1)
        usage_metrics == tracker_usage_metrics(rows, limits, t)
        remaining_daily_budget == limits.daily_cost_limit - usage_metrics.daily_cost
        remaining_hourly_tokens == limits.hourly_token_limit - usage_metrics.hourly_tokens
        daily == Ratio(usage_metrics.daily_cost + est.total_cost, limits.daily_cost_limit)
        decision ==
            IF est.total_cost > remaining_daily_budget
            THEN <<BLOCKED, "Daily budget exceeded">>
            ELSE IF est.total_tokens > remaining_hourly_tokens
            THEN <<BLOCKED, "Hourly token limit exceeded">>
            ELSE IF blockContext
                    /\ RatioGT(context_utilization, limits.max_context_utilization)
            THEN <<BLOCKED, "Context utilization too high">>
            ELSE IF (IF warnGT THEN RatioGT(daily, limits.cost_alert_threshold)
                     ELSE RatioGT(limits.cost_alert_threshold, daily))
            THEN <<WARNING, "High daily budget usage after evaluation">>
            ELSE IF RatioGT(Ratio(usage_metrics.hourly_tokens + est.total_tokens,
                                  limits.hourly_token_limit),
                            limits.cost_alert_threshold)
            THEN <<WARNING, "High hourly token usage after evaluation">>
            ELSE IF RatioGT(context_utilization, Ratio(8, 10))
            THEN <<WARNING, "High context utilization">>
            ELSE <<ALLOWED, "Evaluation approved">>
    IN  [status |-> decision[1],
         estimated_cost |-> est.total_cost,
         estimated_tokens |-> est.total_tokens,
         message |-> decision[2],
         remaining_daily_budget |-> remaining_daily_budget,
         remaining_hourly_tokens |-> remaining_hourly_tokens,
         context_utilization |-> context_utilization]

\* check_quota_compliance without the branch that blocks on the context
check_quota_compliance_no_context_block(rows, limits, t, model, estimated_input_tokens, estimated_output_tokens, context_tokens) ==
    Decide(rows, limits, t, model, estimated_input_tokens,
           estimated_output_tokens, context_tokens, FALSE, TRUE)

\* check_quota_compliance with the daily-budget warning compared by < in place of >
check_quota_compliance_warn_reversed(rows, limits, t, model, estimated_input_tokens, estimated_output_tokens, context_tokens) ==
    Decide(rows, limits, t, model, estimated_input_tokens,
           estimated_output_tokens, context_tokens, TRUE, FALSE)

\* QuotaEnforcer.check_quota_compliance: the QuotaCheck returned
check_quota_compliance(rows, limits, t, model, estimated_input_tokens, estimated_output_tokens, context_tokens) ==
    LET est == estimate_evaluation_cost(model, estimated_input_tokens,
                                        estimated_output_tokens)
        estimated_cost == est.total_cost
        estimated_tokens == est.total_tokens
        context_limit == context_window(model)
        context_utilization == IF context_limit > 0
                               THEN Ratio(context_tokens, context_limit)
                               ELSE Ratio(0, 1)
        usage_metrics == tracker_usage_metrics(rows, limits, t)
        daily_budget_used == usage_metrics.daily_cost
        daily_budget_limit == limits.daily_cost_limit
        remaining_daily_budget == daily_budget_limit - daily_budget_used
        hourly_tokens_used == usage_metrics.hourly_tokens
        hourly_token_limit == limits.hourly_token_limit
        remaining_hourly_tokens == hourly_token_limit - hourly_tokens_used
        warning_threshold == limits.cost_alert_threshold
        decision ==
            IF estimated_cost > remaining_daily_budget
            THEN <<BLOCKED, "Daily budget exceeded">>
            ELSE IF estimated_tokens > remaining_hourly_tokens
            THEN <<BLOCKED, "Hourly token limit exceeded">>
            ELSE IF RatioGT(context_utilization, limits.max_context_utilization)
            THEN <<BLOCKED, "Context utilization too high">>
            ELSE IF RatioGT(Ratio(daily_budget_used + estimated_cost, daily_budget_limit),
                            warning_threshold)
            THEN <<WARNING, "High daily budget usage after evaluation">>
            ELSE IF RatioGT(Ratio(hourly_tokens_used + estimated_tokens, hourly_token_limit),
                            warning_threshold)
            THEN <<WARNING, "High hourly token usage after evaluation">>
            ELSE IF RatioGT(context_utilization, Ratio(8, 10))
            THEN <<WARNING, "High context utilization">>
            ELSE <<ALLOWED, "Evaluation approved">>
    IN  [status |-> decision[1],
         estimated_cost |-> estimated_cost,
         estimated_tokens |-> estimated_tokens,
         message |-> decision[2],
         remaining_daily_budget |-> remaining_daily_budget,
         remaining_hourly_tokens |-> remaining_hourly_tokens,
         context_utilization |-> context_utilization]

\* enforce_quota without the branch for a WARNING the caller does not allow
enforce_quota_warnings_pass(rows, limits, t, model, estimated_input_tokens, estimated_output_tokens, context_tokens, allow_warnings) ==
    LET quota_check == check_quota_compliance(rows, limits, t, model,
                           estimated_input_tokens, estimated_output_tokens,
                           context_tokens)
    IN  IF quota_check.status = BLOCKED
        THEN [raised |-> "QuotaException", quota_check |-> quota_check]
        ELSE [raised |-> "none", quota_check |-> quota_check]

\* enforce_quota: the QuotaCheck returned, or the QuotaException raised and the
\* QuotaCheck it carries
enforce_quota(rows, limits, t, model, estimated_input_tokens, estimated_output_tokens, context_tokens, allow_warnings) ==
    LET quota_check == check_quota_compliance(rows, limits, t, model,
                           estimated_input_tokens, estimated_output_tokens,
                           context_tokens)
    IN  IF quota_check.status = BLOCKED
        THEN [raised |-> "QuotaException", quota_check |-> quota_check]
        ELSE IF quota_check.status = WARNING /\ ~allow_warnings
        THEN [raised |-> "QuotaException", quota_check |-> quota_check]
        ELSE [raised |-> "none", quota_check |-> quota_check]

----------------------------------------------------------------------------
(* CircuitBreaker *)

\* RequestStats()
RequestStats(t) ==
    [total_requests |-> 0, successful_requests |-> 0, failed_requests |-> 0,
     total_tokens |-> 0, total_cost |-> 0, last_reset |-> t,
     request_times |-> <<>>]

\* CircuitBreaker.__init__
CircuitBreakerInit(t) ==
    [state |-> CLOSED, failure_count |-> 0, success_count |-> 0,
     last_failure_time |-> 0, stats |-> RequestStats(t)]

\* the list comprehension [x for x in s if x > cutoff]
RECURSIVE KeepAfter(_, _)
KeepAfter(s, cutoff) ==
    IF s = <<>> THEN <<>>
    ELSE IF Head(s) > cutoff THEN <<Head(s)>> \o KeepAfter(Tail(s), cutoff)
    ELSE KeepAfter(Tail(s), cutoff)

should_reset_stats(b, t) == t - b.stats.last_reset > HourWindow

\* _reset_stats_if_needed that never starts a new window
reset_stats_never(b, t) == b

reset_stats_if_needed(b, t) ==
    IF should_reset_stats(b, t)
    THEN [b EXCEPT !.stats.total_tokens = 0,
                   !.stats.total_cost = 0,
                   !.stats.last_reset = t,
                   !.stats.request_times = KeepAfter(@, t - HourWindow)]
    ELSE b

\* _check_cost_limits without the cost ceiling
check_cost_limits_tokens_only(b, c, estimated_tokens, estimated_cost) ==
    b.stats.total_tokens + estimated_tokens > c.max_tokens_per_hour

\* TRUE iff _check_cost_limits raises CostLimitExceeded
check_cost_limits(b, c, estimated_tokens, estimated_cost) ==
    \/ b.stats.total_tokens + estimated_tokens > c.max_tokens_per_hour
    \/ b.stats.total_cost + estimated_cost > c.max_cost_per_hour

\* can_request that keeps the old success_count when it moves to HALF_OPEN
can_request_keeps_count(b, c, t, estimated_tokens, estimated_cost) ==
    LET b1 == reset_stats_if_needed(b, t) IN
    IF check_cost_limits(b1, c, estimated_tokens, estimated_cost)
    THEN [cb |-> b1, result |-> FALSE]
    ELSE IF b1.state = OPEN
    THEN IF t - b1.last_failure_time > c.recovery_timeout
         THEN [cb |-> [b1 EXCEPT !.state = HALF_OPEN], result |-> TRUE]
         ELSE [cb |-> b1, result |-> FALSE]
    ELSE [cb |-> b1, result |-> TRUE]

\* the breaker after the call, and the value returned
can_request(b, c, t, estimated_tokens, estimated_cost) ==
    LET b1 == reset_stats_if_needed(b, t) IN
    IF check_cost_limits(b1, c, estimated_tokens, estimated_cost)
    THEN [cb |-> b1, result |-> FALSE]
    ELSE IF b1.state = OPEN
    THEN IF t - b1.last_failure_time > c.recovery_timeout
         THEN [cb |-> [b1 EXCEPT !.state = HALF_OPEN, !.success_count = 0],
               result |-> TRUE]
         ELSE [cb |-> b1, result |-> FALSE]
    ELSE [cb |-> b1, result |-> TRUE]

\* record_success with the threshold compared by > in place of >=
record_success_late(b, c, t, tokens_used, cost) ==
    LET b1 == [b EXCEPT !.stats.successful_requests = @ + 1,
                        !.stats.total_tokens = @ + tokens_used,
                        !.stats.total_cost = @ + cost,
                        !.stats.request_times = Append(@, t)]
    IN  IF b1.state = HALF_OPEN
        THEN LET b2 == [b1 EXCEPT !.success_count = @ + 1] IN
             IF b2.success_count > c.success_threshold
             THEN [b2 EXCEPT !.state = CLOSED, !.failure_count = 0]
             ELSE b2
        ELSE b1

\* record_success without the test that the breaker is HALF_OPEN
record_success_any_state(b, c, t, tokens_used, cost) ==
    LET b1 == [b EXCEPT !.stats.successful_requests = @ + 1,
                        !.stats.total_tokens = @ + tokens_used,
                        !.stats.total_cost = @ + cost,
                        !.stats.request_times = Append(@, t)]
        b2 == [b1 EXCEPT !.success_count = @ + 1]
    IN  IF b2.success_count >= c.success_threshold
        THEN [b2 EXCEPT !.state = CLOSED, !.failure_count = 0]
        ELSE b2

record_success(b, c, t, tokens_used, cost) ==
    LET b1 == [b EXCEPT !.stats.successful_requests = @ + 1,
                        !.stats.total_tokens = @ + tokens_used,
                        !.stats.total_cost = @ + cost,
                        !.stats.request_times = Append(@, t)]
    IN  IF b1.state = HALF_OPEN
        THEN LET b2 == [b1 EXCEPT !.success_count = @ + 1] IN
             IF b2.success_count >= c.success_threshold
             THEN [b2 EXCEPT !.state = CLOSED, !.failure_count = 0]
             ELSE b2
        ELSE b1

\* record_failure with the threshold compared by > in place of >=
record_failure_late(b, c, t) ==
    LET b1 == [b EXCEPT !.stats.failed_requests = @ + 1,
                        !.failure_count = @ + 1,
                        !.last_failure_time = t]
    IN  IF b1.failure_count > c.failure_threshold
        THEN [b1 EXCEPT !.state = OPEN]
        ELSE b1

\* record_failure that leaves last_failure_time as it was
record_failure_stale(b, c, t) ==
    LET b1 == [b EXCEPT !.stats.failed_requests = @ + 1,
                        !.failure_count = @ + 1]
    IN  IF b1.failure_count >= c.failure_threshold
        THEN [b1 EXCEPT !.state = OPEN]
        ELSE b1

record_failure(b, c, t) ==
    LET b1 == [b EXCEPT !.stats.failed_requests = @ + 1,
                        !.failure_count = @ + 1,
                        !.last_failure_time = t]
    IN  IF b1.failure_count >= c.failure_threshold
        THEN [b1 EXCEPT !.state = OPEN]
        ELSE b1

\* the breaker after the call, and the dictionary returned
get_stats(b, t) ==
    LET b1 == reset_stats_if_needed(b, t) IN
    [cb |-> b1,
     result |-> [state |-> b1.state,
                 total_requests |-> b1.stats.total_requests,
                 successful_requests |-> b1.stats.successful_requests,
                 failed_requests |-> b1.stats.failed_requests,
                 failure_count |-> b1.failure_count,
                 tokens_used_this_hour |-> b1.stats.total_tokens,
                 cost_this_hour |-> b1.stats.total_cost,
                 requests_this_hour |-> Len(b1.stats.request_times)]]

----------------------------------------------------------------------------
(* RateLimiter *)

\* the length of the limiter's minute window, in seconds
MinuteSeconds == 60

\* RateLimiter.__init__
RateLimiterInit == [request_times |-> <<>>]

\* _clean_old_requests: only the hour's cutoff is applied
clean_old_requests(r, t) ==
    [r EXCEPT !.request_times = KeepAfter(@, t - HourWindow)]

\* _get_requests_in_window
get_requests_in_window(r, t, window_seconds) ==
    Len(KeepAfter(r.request_times, t - window_seconds))

\* RateLimiter.can_request: the limiter after the call, and the value returned
RateLimiter_can_request(r, c, t) ==
    LET r1 == clean_old_requests(r, t)
        requests_last_minute == get_requests_in_window(r1, t, MinuteSeconds)
        requests_last_hour == get_requests_in_window(r1, t, HourWindow)
    IN  [rl |-> r1,
         result |-> /\ requests_last_minute < c.requests_per_minute
                    /\ requests_last_hour < c.requests_per_hour]

\* RateLimiter.record_request
record_request(r, t) == [r EXCEPT !.request_times = Append(@, t)]

\* min(minute_requests)
RECURSIVE SeqMin(_)
SeqMin(s) ==
    IF Len(s) = 1 THEN s[1]
    ELSE LET m == SeqMin(Tail(s)) IN IF Head(s) < m THEN Head(s) ELSE m

\* RateLimiter.wait_if_needed: the limiter after the call and the seconds slept
wait_if_needed(r, c, t) ==
    LET can == RateLimiter_can_request(r, c, t)
        minute_requests == KeepAfter(can.rl.request_times, t - MinuteSeconds)
    IN  IF ~can.result /\ minute_requests # <<>>
        THEN [rl |-> can.rl,
              slept |-> MinuteSeconds - (t - SeqMin(minute_requests)) + 1]
        ELSE [rl |-> can.rl, slept |-> 0]

\* RateLimitConfig: the ceilings the limiter is constructed with
RLConfigs == [requests_per_minute : {1, 2}, requests_per_hour : {2}]

\* the limiter, constructed and not used
RateLimiterUnused ==
    /\ rlcfg = CHOOSE c \in RLConfigs : TRUE
    /\ rl = RateLimiterInit
    /\ rlpc = "idle"
    /\ rlh = [op |-> "init", slept |-> 0, recorded |-> 0, ticks |-> 0]

----------------------------------------------------------------------------
(* exponential_backoff *)

RECURSIVE Pow2(_)
Pow2(n) == IF n = 0 THEN 1 ELSE 2 * Pow2(n - 1)

\* delay = min(base_delay * (2 ** attempt), max_delay)
backoff_delay(c, attempt) ==
    LET d == c.base_delay * Pow2(attempt) IN
    IF d < c.max_delay THEN d ELSE c.max_delay

\* jitter = delay * jitter_factor * random.random(), in whole seconds: any j
\* with 0 <= j < delay * jitter_factor
backoff_jitters(c, delay) ==
    {j \in 0..delay : j * c.jitter_factor.den < delay * c.jitter_factor.num}

\* the except clause that sleeps on every failure, the last one included
after_failure_always_sleeps(attempt, max_retries) == "sleep"

\* the except clause: "if attempt == max_retries: raise", else sleep and retry
after_failure(attempt, max_retries) ==
    IF attempt = max_retries THEN "raise" ELSE "sleep"

\* the arguments the decorator is given: delays in seconds
BackoffConfigs ==
    [max_retries : 0..MaxRetries, base_delay : {10, 20}, max_delay : {30},
     jitter_factor : {Ratio(1, 10)}]

\* what one invocation of the wrapped function does: it returns, it raises an
\* Exception, or it raises a BaseException that "except Exception" lets through
CallOutcomes == {"returns", "Exception", "BaseException"}

\* no call is wrapped by exponential_backoff
BackoffUnused ==
    /\ bo = [pc |-> "idle"]
    /\ bolog = <<>>

----------------------------------------------------------------------------
(* AuditLogger *)

\* A key of a dict is the sequence of its characters.  A value is a string (its
\* text and its length), a number, None, or a dict from keys to values.
Str(text, len) == [kind |-> "str", text |-> text, len |-> len]
Num(n) == [kind |-> "num", num |-> n]
NoneValue == [kind |-> "none"]
Dict(items) == [kind |-> "dict", items |-> items]

\* str.lower(), character by character
UpperToLower ==
    ("A" :> "a") @@ ("B" :> "b") @@ ("C" :> "c") @@ ("D" :> "d") @@
    ("E" :> "e") @@ ("F" :> "f") @@ ("G" :> "g") @@ ("H" :> "h") @@
    ("I" :> "i") @@ ("J" :> "j") @@ ("K" :> "k") @@ ("L" :> "l") @@
    ("M" :> "m") @@ ("N" :> "n") @@ ("O" :> "o") @@ ("P" :> "p") @@
    ("Q" :> "q") @@ ("R" :> "r") @@ ("S" :> "s") @@ ("T" :> "t") @@
    ("U" :> "u") @@ ("V" :> "v") @@ ("W" :> "w") @@ ("X" :> "x") @@
    ("Y" :> "y") @@ ("Z" :> "z")

Lower(key) ==
    [i \in DOMAIN key |->
        IF key[i] \in DOMAIN UpperToLower THEN UpperToLower[key[i]] ELSE key[i]]

\* the Python test "sub in s" on strings
Contains(s, sub) ==
    \E i \in 1..(Len(s) - Len(sub) + 1) : SubSeq(s, i, i + Len(sub) - 1) = sub

\* sensitive_keys of _is_sensitive_key
sensitive_keys ==
    {<<"a", "p", "i", "_", "k", "e", "y">>,
     <<"s", "e", "c", "r", "e", "t">>,
     <<"p", "a", "s", "s", "w", "o", "r", "d">>,
     <<"t", "o", "k", "e", "n">>,
     <<"a", "u", "t", "h">>,
     <<"c", "r", "e", "d", "e", "n", "t", "i", "a", "l">>}

\* _is_sensitive_key
is_sensitive_key(key) ==
    \E sensitive \in sensitive_keys : Contains(Lower(key), sensitive)

\* the restriction of a dict's items to the keys in keep
Restrict(items, keep) == [k \in keep |-> items[k]]

\* _sanitize_value: a dict loses its sensitive top-level keys, a string longer
\* than 100 characters is cut to 100 and "..." is appended
sanitize_value(value) ==
    IF value.kind = "dict"
    THEN Dict(Restrict(value.items,
                       {k \in DOMAIN value.items : ~is_sensitive_key(k)}))
    ELSE IF value.kind = "str" /\ value.len > 100
    THEN Str(value.text, 103)
    ELSE value

\* the keys _sanitize_grades always keeps
grade_keys ==
    {<<"s", "c", "o", "r", "e">>,
     <<"m", "a", "x", "_", "s", "c", "o", "r", "e">>,
     <<"p", "a", "s", "s", "e", "d">>,
     <<"a", "c", "c", "u", "r", "a", "c", "y">>,
     <<"q", "u", "a", "l", "i", "t", "y">>}

\* _sanitize_grades: the listed keys, and every key whose value is a number
sanitize_grades(grades) ==
    Dict(Restrict(grades.items,
                  {k \in DOMAIN grades.items :
                      k \in grade_keys \/ grades.items[k].kind = "num"}))

\* the rows the four helpers that take free-form data hand to log_event;
\* json.dumps keeps every key and value of event_data and of metadata
log_config_change(t, old_value, new_value) ==
    [timestamp |-> t, event_type |-> "system_config_change",
     event_data |-> [old_value |-> sanitize_value(old_value),
                     new_value |-> sanitize_value(new_value)],
     metadata |-> Dict(<<>>)]

log_quota_violation(t, details) ==
    [timestamp |-> t, event_type |-> "quota_violation",
     event_data |-> [details |-> details],
     metadata |-> Dict(<<>>)]

log_evaluation_start(t, metadata) ==
    [timestamp |-> t, event_type |-> "evaluation_start",
     event_data |-> [estimated_cost |-> 0, estimated_tokens |-> 0],
     metadata |-> IF metadata.kind = "none" THEN Dict(<<>>) ELSE metadata]

log_evaluation_complete(t, grades) ==
    [timestamp |-> t, event_type |-> "evaluation_complete",
     event_data |-> [grades_summary |->
                        IF grades.kind = "none" \/ DOMAIN grades.items = {}
                        THEN NoneValue ELSE sanitize_grades(grades)],
     metadata |-> Dict(<<>>)]

(* IEEE 754 binary64, as far as _calculate_compliance_score uses it.  A number
   is a sign and a magnitude; the magnitude is a natural number of units of
   2^-58, written as its binary digits, lowest first, without leading zeros.
   Every double the function computes is a whole number of such units. *)

\* the binary exponent of the unit
UnitExponent == 58

\* the significand of a double has 53 binary digits
SignificandBits == 53

Bit(a, i) == IF i <= Len(a) THEN a[i] ELSE 0

\* a without its leading zeros
RECURSIVE Trim(_)
Trim(a) ==
    IF a = <<>> THEN <<>>
    ELSE IF a[Len(a)] = 0 THEN Trim(SubSeq(a, 1, Len(a) - 1))
    ELSE a

RECURSIVE AddFrom(_, _, _, _, _)
AddFrom(a, b, i, carry, n) ==
    IF i > n THEN <<>>
    ELSE LET s == Bit(a, i) + Bit(b, i) + carry
         IN  <<s % 2>> \o AddFrom(a, b, i + 1, s \div 2, n)

\* a + b
BAdd(a, b) ==
    Trim(AddFrom(a, b, 1, 0, (IF Len(a) > Len(b) THEN Len(a) ELSE Len(b)) + 1))

RECURSIVE SubFrom(_, _, _, _)
SubFrom(a, b, i, borrow) ==
    IF i > Len(a) THEN <<>>
    ELSE LET d == Bit(a, i) - Bit(b, i) - borrow
         IN  IF d < 0 THEN <<d + 2>> \o SubFrom(a, b, i + 1, 1)
             ELSE <<d>> \o SubFrom(a, b, i + 1, 0)

\* a - b, for a >= b
BSub(a, b) == Trim(SubFrom(a, b, 1, 0))

\* a < b
BLess(a, b) ==
    \/ Len(a) < Len(b)
    \/ /\ Len(a) = Len(b)
       /\ \E i \in 1..Len(a) :
            /\ a[i] < b[i]
            /\ \A j \in (i + 1)..Len(a) : a[j] = b[j]

\* a * n, for a natural number n
RECURSIVE BMul(_, _)
BMul(a, n) ==
    IF n = 0 \/ a = <<>> THEN <<>>
    ELSE IF n % 2 = 0 THEN <<0>> \o BMul(a, n \div 2)
    ELSE BAdd(a, <<0>> \o BMul(a, n \div 2))

\* the double nearest to a, ties to the even significand
RoundDouble(a) ==
    IF Len(a) <= SignificandBits THEN a
    ELSE LET sh == Len(a) - SignificandBits
             q == SubSeq(a, sh + 1, Len(a))
             half == a[sh] = 1
             sticky == \E i \in 1..(sh - 1) : a[i] = 1
             up == half /\ (sticky \/ q[1] = 1)
         IN  [i \in 1..sh |-> 0] \o (IF up THEN BAdd(q, <<1>>) ELSE q)

\* the magnitude written in hexadecimal, highest digit first
RECURSIVE HexBits(_)
HexBits(h) ==
    IF h = <<>> THEN <<>>
    ELSE LET d == h[Len(h)]
         IN  <<d % 2, (d \div 2) % 2, (d \div 4) % 2, (d \div 8) % 2>>
             \o HexBits(SubSeq(h, 1, Len(h) - 1))

\* the double 1.0
FloatOne == [i \in 1..(UnitExponent + 1) |-> IF i = UnitExponent + 1 THEN 1 ELSE 0]

\* the doubles 0.1 = 0x1999999999999A * 2^-56, 0.05 = 0x1999999999999A * 2^-57
\* and 0.02 = 0x147AE147AE147B * 2^-58
Float_0_1 == <<0, 0>> \o Trim(HexBits(<<1, 9, 9, 9, 9, 9, 9, 9, 9, 9, 9, 9, 9, 10>>))
Float_0_05 == <<0>> \o Trim(HexBits(<<1, 9, 9, 9, 9, 9, 9, 9, 9, 9, 9, 9, 9, 10>>))
Float_0_02 == Trim(HexBits(<<1, 4, 7, 10, 14, 1, 4, 7, 10, 14, 1, 4, 7, 11>>))

\* n * x for an int n >= 0 and a double x >= 0: n is converted exactly, the
\* product is rounded
FloatTimes(n, x) == RoundDouble(BMul(x, n))

\* s - x for a double s and a double x >= 0, rounded
FloatMinus(s, x) ==
    IF s.neg THEN [neg |-> TRUE, mag |-> RoundDouble(BAdd(s.mag, x))]
    ELSE IF BLess(s.mag, x)
    THEN [neg |-> TRUE, mag |-> RoundDouble(BSub(x, s.mag))]
    ELSE [neg |-> FALSE, mag |-> RoundDouble(BSub(s.mag, x))]

\* max(0.0, s)
FloatMaxZero(s) == IF ~s.neg /\ s.mag # <<>> THEN s ELSE [neg |-> FALSE, mag |-> <<>>]

\* _calculate_compliance_score without the final max
calculate_compliance_score_unclamped(violations, alerts, degradations) ==
    LET s0 == [neg |-> FALSE, mag |-> FloatOne]
        s1 == FloatMinus(s0, FloatTimes(violations, Float_0_1))
        s2 == FloatMinus(s1, FloatTimes(alerts, Float_0_05))
    IN  FloatMinus(s2, FloatTimes(degradations, Float_0_02))

\* _calculate_compliance_score
calculate_compliance_score(violations, alerts, degradations) ==
    LET s0 == [neg |-> FALSE, mag |-> FloatOne]
        s1 == FloatMinus(s0, FloatTimes(violations, Float_0_1))
        s2 == FloatMinus(s1, FloatTimes(alerts, Float_0_05))
        s3 == FloatMinus(s2, FloatTimes(degradations, Float_0_02))
    IN  FloatMaxZero(s3)

\* keys callers use
K_name == <<"n", "a", "m", "e">>
K_db == <<"d", "b">>
K_password == <<"p", "a", "s", "s", "w", "o", "r", "d">>
K_API_TOKEN == <<"A", "P", "I", "_", "T", "O", "K", "E", "N">>
K_score == <<"s", "c", "o", "r", "e">>

\* the dicts callers pass: empty, harmless, with a credential at the top level
\* (in lower and in upper case) and with a credential one level down
CallerDicts ==
    {Dict(<<>>),
     Dict(K_name :> Str("eval", 4)),
     Dict(K_password :> Str("hunter2", 7)),
     Dict((K_name :> Str("eval", 4)) @@ (K_API_TOKEN :> Str("sk-1", 4))),
     Dict(K_db :> Dict(K_password :> Str("hunter2", 7)))}

\* the values log_config_change is passed: a dict, a short or a long string, a
\* number
ConfigValues == CallerDicts \cup {Str("short", 5), Str("long", 150), Num(7)}

\* the grades log_evaluation_complete is passed
CallerGrades ==
    {NoneValue,
     Dict(K_score :> Num(1)),
     Dict((K_score :> Num(1)) @@ (K_name :> Str("alice", 5))),
     Dict((K_score :> Num(1)) @@ (K_API_TOKEN :> Num(5))),
     Dict(K_score :> Dict(K_password :> Str("hunter2", 7)))}

\* the audit log, empty
AuditUnused ==
    /\ audit = <<>>
    /\ aret = [op |-> "init"]

----------------------------------------------------------------------------
(* ContextMonitor.  A context utilization is a whole number of thousandths. *)

\* PerformanceTier
OPTIMAL == "optimal"
GOOD == "good"
DEGRADED == "degraded"
POOR == "poor"
CRITICAL == "critical"

\* assess_performance_tier with > in place of >=
assess_performance_tier_exclusive(context_utilization) ==
    IF context_utilization > 950 THEN CRITICAL
    ELSE IF context_utilization > 900 THEN POOR
    ELSE IF context_utilization > 750 THEN DEGRADED
    ELSE IF context_utilization > 600 THEN GOOD
    ELSE OPTIMAL

\* assess_performance_tier
assess_performance_tier(context_utilization) ==
    IF context_utilization >= 950 THEN CRITICAL
    ELSE IF context_utilization >= 900 THEN POOR
    ELSE IF context_utilization >= 750 THEN DEGRADED
    ELSE IF context_utilization >= 600 THEN GOOD
    ELSE OPTIMAL

\* no such function has been called
FunctionsUnused ==
    /\ pin = [op |-> "none"]
    /\ pout = [op |-> "none"]

\* the breaker's one caller has made no call
CallerUnused ==
    /\ pend = [op |-> "none"]
    /\ admitted = <<>>

----------------------------------------------------------------------------
(* rate_limited *)

\* the threads that call wrapped functions
Workers == {"w1", "w2"}

\* a thread that is in no call
ThreadIdle ==
    [pc |-> "idle", job |-> "none", jobs |-> 0,
     model |-> "gpt-5", input_tokens |-> 0, output_tokens |-> 0,
     status |-> "none", estimated_cost |-> 0, estimated_tokens |-> 0,
     seen |-> 0, timestamp |-> 0, record_cost |-> 0, row |-> 0, logged |-> {},
     tokens_used |-> 0, cost |-> 0,
     successful_requests |-> 0, total_tokens |-> 0, total_cost |-> 0]

\* threading.Lock.acquire that does not wait for the holder
lock_ignored(holder) == TRUE

\* threading.Lock.acquire returns when no thread holds the lock
lock_free(holder) == holder = "free"

\* no thread has been started
ThreadsUnused ==
    /\ th = [w \in Workers |-> ThreadIdle]
    /\ locks = [tracker |-> "free", breaker |-> "free"]
    /\ booked = [records |-> 0, cost |-> 0, tokens |-> 0,
                 successes |-> 0, tokens_used |-> 0, breaker_cost |-> 0,
                 usage_overlaps |-> 0, success_overlaps |-> 0]

\* the wrapper's frame before its first invocation
WrapperIdle ==
    [pc |-> "idle", estimated_tokens |-> 0, estimated_cost |-> 0,
     cause |-> "none", state |-> CLOSED, elapsed |-> FALSE, wake_at |-> 0,
     trace |-> <<>>,
     outcome |-> "none", raised |-> "none"]

\* the error the wrapper raises after can_request has returned false: it reads
\* the breaker's state again, outside the breaker's lock
refusal_error(state) ==
    IF state = OPEN THEN "CircuitBreakerOpen" ELSE "CostLimitExceeded"

\* what the wrapped function does: it returns a result without a usage
\* attribute, with a usage dict holding total_tokens, or with a usage that has
\* no get method; or it raises an Exception, or a BaseException that is not an
\* Exception (KeyboardInterrupt, SystemExit)
FuncOutcomes ==
    {[kind |-> "returns", usage |-> "absent"],
     [kind |-> "returns", usage |-> "dict"],
     [kind |-> "returns", usage |-> "object"],
     [kind |-> "Exception", usage |-> "absent"],
     [kind |-> "BaseException", usage |-> "absent"]}

\* total_tokens of the usage dict a result carries
ReportedTokens == 1

\* getattr(result, 'usage', {}).get('total_tokens', estimated_tokens)
tokens_used(o, estimated_tokens) ==
    IF o.usage = "dict" THEN ReportedTokens ELSE estimated_tokens

\* what leaves the try block of the wrapper: "none" when record_success is
\* reached, else the exception
try_block_raises(o) ==
    IF o.kind = "returns"
    THEN IF o.usage = "object" THEN "AttributeError" ELSE "none"
    ELSE o.kind

\* no wrapped function has been called
WrapperUnused ==
    /\ wr = [w \in Workers |-> WrapperIdle]
    /\ wrh = [invocations |-> 0, ticks |-> 0]

\* CircuitBreakerConfig: the configurations the breaker is constructed with
Configs ==
    [failure_threshold : {1, 2},
     recovery_timeout : {1},
     success_threshold : {1, 2},
     max_tokens_per_hour : {1},
     max_cost_per_hour : {1}]

\* the estimated_tokens, estimated_cost, tokens_used and cost a caller passes
Estimates == {0, 1}

InitCB ==
    /\ now = StartTime
    /\ cfg \in Configs
    /\ cb = CircuitBreakerInit(now)
    /\ ret = [op |-> "init"]
    /\ consec = 0
    /\ cleanRun = 0
    /\ hoSucc = 0
    /\ reopenTime = -1
    /\ policy = BudgetLimits
    /\ ledger = <<>>
    /\ qret = [op |-> "init"]
    /\ RateLimiterUnused /\ BackoffUnused /\ AuditUnused /\ WrapperUnused /\ FunctionsUnused /\ CallerUnused /\ ThreadsUnused

\* the clock advances by a second between two calls, Slack times at most
Tick ==
    /\ now - StartTime < Slack
    /\ now' = now + 1
    /\ UNCHANGED <<cfg, cb, ret, consec, cleanRun, hoSucc, reopenTime>>
    /\ UNCHANGED <<qgVars, rlVars, boVars, auVars, wrVars, pfVars, roVars, thVars>>

\* the clock advances by the length of the statistics window between two calls
TickHour ==
    /\ now + HourWindow <= StartTime + HourWindow + Slack
    /\ now' = now + HourWindow
    /\ UNCHANGED <<cfg, cb, ret, consec, cleanRun, hoSucc, reopenTime>>
    /\ UNCHANGED <<qgVars, rlVars, boVars, auVars, wrVars, pfVars, roVars, thVars>>

CanRequest ==
    \E tok \in Estimates, cost \in Estimates :
        LET r == can_request(cb, cfg, now, tok, cost) IN
        /\ cb' = r.cb
        /\ ret' = [op |-> "can_request", tokens |-> tok, cost |-> cost,
                   result |-> r.result]
        /\ reopenTime' = IF r.cb.state = OPEN THEN reopenTime ELSE -1
        /\ UNCHANGED <<now, cfg, consec, cleanRun, hoSucc>>
        /\ UNCHANGED <<qgVars, rlVars, boVars, auVars, wrVars, pfVars, roVars, thVars>>

RecordSuccess ==
    /\ cb.stats.successful_requests < MaxSuccesses
    /\ \E tok \in Estimates, cost \in Estimates :
        LET b == record_success(cb, cfg, now, tok, cost) IN
        /\ cb' = b
        /\ ret' = [op |-> "record_success"]
        /\ consec' = 0
        /\ cleanRun' = IF b.state = CLOSED /\ b.failure_count = 0 THEN 0 ELSE -1
        /\ hoSucc' = IF b.state = HALF_OPEN THEN hoSucc + 1 ELSE 0
        /\ reopenTime' = IF b.state = OPEN THEN reopenTime ELSE -1
        /\ UNCHANGED <<now, cfg>>
        /\ UNCHANGED <<qgVars, rlVars, boVars, auVars, wrVars, pfVars, roVars, thVars>>

RecordFailure ==
    /\ cb.stats.failed_requests < MaxFailures
    /\ LET b == record_failure(cb, cfg, now) IN
        /\ cb' = b
        /\ ret' = [op |-> "record_failure"]
        /\ consec' = consec + 1
        /\ cleanRun' = IF cleanRun >= 0 THEN cleanRun + 1 ELSE cleanRun
        /\ hoSucc' = IF b.state = HALF_OPEN THEN hoSucc ELSE 0
        /\ reopenTime' = IF b.state # OPEN THEN -1
                         ELSE IF cb.state = HALF_OPEN THEN now ELSE reopenTime
        /\ UNCHANGED <<now, cfg>>
        /\ UNCHANGED <<qgVars, rlVars, boVars, auVars, wrVars, pfVars, roVars, thVars>>

GetStats ==
    LET r == get_stats(cb, now) IN
    /\ cb' = r.cb
    /\ ret' = [op |-> "get_stats"]
    /\ UNCHANGED <<now, cfg, consec, cleanRun, hoSucc, reopenTime>>
    /\ UNCHANGED <<qgVars, rlVars, boVars, auVars, wrVars, pfVars, roVars, thVars>>

NextCB ==
    \/ Tick
    \/ CanRequest
    \/ RecordSuccess
    \/ RecordFailure
    \/ GetStats

\* the breaker within one statistics window
SpecCB == InitCB /\ [][NextCB]_vars

NextCBHour ==
    \/ NextCB
    \/ TickHour

\* the breaker across the end of a statistics window
SpecCBHour == InitCB /\ [][NextCBHour]_vars

----------------------------------------------------------------------------
(* The ledger and the quota gate as a state machine *)

Request(model, input_tokens, output_tokens, context_tokens) ==
    [model |-> model, input_tokens |-> input_tokens,
     output_tokens |-> output_tokens, context_tokens |-> context_tokens]

\* what the evaluation runner records: model, input and output tokens and the
\* context used ("mystery" is a model MODEL_COSTS does not price)
RecordRequests ==
    {Request("gpt-5", 1000, 0, 0),
     Request("o3", 2000, 0, 0),
     Request("mystery", 3000, 1000, 115201)}

\* what a caller asks the quota gate: requests of 0 to 3000 tokens on a cheap,
\* on a dear and on an unpriced model, and contexts on either side of 80% and
\* of 90% of a window of 128000 tokens, and one request estimated at 1.50 USD
CheckRequests ==
    {Request("gpt-5", i, o, 0) : i \in {0, 1000, 2000}, o \in {0, 1000}}
    \cup {Request("o3", 2000, 0, 0), Request("o3", 1000, 1000, 0),
          Request("mystery", 1000, 0, 0), Request("o3", 0, 12500, 0)}
    \cup {Request("gpt-5", 1000, 0, c) : c \in {102400, 102401, 115200, 115201}}

\* what a caller asks enforce_quota
EnforceRequests ==
    {Request("gpt-5", 1000, 0, 0), Request("gpt-5", 2000, 1000, 0),
     Request("gpt-5", 1000, 0, 115200), Request("gpt-5", 1000, 0, 115201)}

InitQG ==
    /\ now = StartTime
    /\ cfg = CHOOSE c \in Configs : TRUE
    /\ cb = CircuitBreakerInit(now)
    /\ ret = [op |-> "init"]
    /\ consec = 0
    /\ cleanRun = 0
    /\ hoSucc = 0
    /\ reopenTime = -1
    /\ policy \in Policies
    /\ ledger = <<>>
    /\ qret = [op |-> "init"]
    /\ RateLimiterUnused /\ BackoffUnused /\ AuditUnused /\ WrapperUnused /\ FunctionsUnused /\ CallerUnused /\ ThreadsUnused

\* steps the ledger's clock has taken
LedgerTicks == ((now - StartTime) \div DaySeconds)
               + (((now - StartTime) % DaySeconds) \div HourSeconds)

\* the clock advances by an hour or by a day between two calls
TickLedger ==
    /\ LedgerTicks < MaxLedgerTicks
    /\ \E d \in {HourSeconds, DaySeconds} : now' = now + d
    /\ UNCHANGED <<policy, ledger, qret>>
    /\ UNCHANGED <<cbVars, rlVars, boVars, auVars, wrVars, pfVars, roVars, thVars>>

RecordUsage ==
    /\ Len(ledger) < MaxRecords
    /\ \E r \in RecordRequests :
        LET res == record_evaluation_cost(ledger, policy, now, r.model,
                       r.input_tokens, r.output_tokens, r.context_tokens)
        IN  /\ ledger' = res.rows
            /\ qret' = [op |-> "record_usage", cost_record |-> res.cost_record,
                        logged |-> res.logged, raised |-> res.raised]
    /\ UNCHANGED <<now, policy>>
    /\ UNCHANGED <<cbVars, rlVars, boVars, auVars, wrVars, pfVars, roVars, thVars>>

Check ==
    /\ \E r \in CheckRequests :
        qret' = [op |-> "check", request |-> r,
                 quota_check |-> check_quota_compliance(ledger, policy, now,
                     r.model, r.input_tokens, r.output_tokens, r.context_tokens)]
    /\ UNCHANGED <<now, policy, ledger>>
    /\ UNCHANGED <<cbVars, rlVars, boVars, auVars, wrVars, pfVars, roVars, thVars>>

Enforce ==
    /\ \E r \in EnforceRequests, allow_warnings \in BOOLEAN :
        LET res == enforce_quota(ledger, policy, now, r.model, r.input_tokens,
                       r.output_tokens, r.context_tokens, allow_warnings)
        IN  qret' = [op |-> "enforce", request |-> r,
                     allow_warnings |-> allow_warnings,
                     raised |-> res.raised, quota_check |-> res.quota_check]
    /\ UNCHANGED <<now, policy, ledger>>
    /\ UNCHANGED <<cbVars, rlVars, boVars, auVars, wrVars, pfVars, roVars, thVars>>

\* the retention periods cleanup is asked for, in days
RetentionDays == {0, 1}

Cleanup ==
    /\ \E retention_days \in RetentionDays :
        LET res == cleanup_old_records(ledger, now, retention_days) IN
        /\ ledger' = res.rows
        /\ qret' = [op |-> "cleanup", retention_days |-> retention_days,
                    deleted_count |-> res.deleted_count]
    /\ UNCHANGED <<now, policy>>
    /\ UNCHANGED <<cbVars, rlVars, boVars, auVars, wrVars, pfVars, roVars, thVars>>

NextQG ==
    \/ TickLedger
    \/ RecordUsage
    \/ Check
    \/ Enforce
    \/ Cleanup

SpecQG == InitQG /\ [][NextQG]_vars

----------------------------------------------------------------------------
(* The rate limiter and its one caller as a state machine *)

\* the breaker, constructed and not used
BreakerUnused ==
    /\ cfg = CHOOSE c \in Configs : TRUE
    /\ cb = CircuitBreakerInit(now)
    /\ ret = [op |-> "init"]
    /\ consec = 0
    /\ cleanRun = 0
    /\ hoSucc = 0
    /\ reopenTime = -1

\* the ledger, empty and not used
LedgerUnused ==
    /\ policy = BudgetLimits
    /\ ledger = <<>>
    /\ qret = [op |-> "init"]

InitRL ==
    /\ now = StartTime
    /\ rlcfg \in RLConfigs
    /\ rl = RateLimiterInit
    /\ rlpc = "idle"
    /\ rlh = [op |-> "init", slept |-> 0, recorded |-> 0, ticks |-> 0]
    /\ BreakerUnused /\ LedgerUnused /\ BackoffUnused /\ AuditUnused /\ WrapperUnused /\ FunctionsUnused /\ CallerUnused /\ ThreadsUnused

\* between two requests a second, a minute or an hour passes
TickRL ==
    /\ rlpc = "idle"
    /\ rlh.ticks < MaxRLTicks
    /\ \E d \in {1, MinuteSeconds, HourWindow} : now' = now + d
    /\ rlh' = [rlh EXCEPT !.ticks = @ + 1]
    /\ UNCHANGED <<rlcfg, rl, rlpc>>
    /\ UNCHANGED <<cbVars, qgVars, boVars, auVars, wrVars, pfVars, roVars, thVars>>

\* the caller waits: time.sleep(wait_time) moves the clock
WaitIfNeeded ==
    /\ rlpc = "idle"
    /\ rlh.recorded < MaxRequests
    /\ LET w == wait_if_needed(rl, rlcfg, now) IN
        /\ rl' = w.rl
        /\ now' = now + w.slept
        /\ rlh' = [rlh EXCEPT !.op = "wait_if_needed", !.slept = w.slept]
    /\ rlpc' = "waited"
    /\ UNCHANGED rlcfg
    /\ UNCHANGED <<cbVars, qgVars, boVars, auVars, wrVars, pfVars, roVars, thVars>>

\* the caller records its request
RecordRequest ==
    /\ rlpc = "waited"
    /\ rl' = record_request(rl, now)
    /\ rlh' = [rlh EXCEPT !.op = "record_request", !.recorded = @ + 1]
    /\ rlpc' = "idle"
    /\ UNCHANGED <<now, rlcfg>>
    /\ UNCHANGED <<cbVars, qgVars, boVars, auVars, wrVars, pfVars, roVars, thVars>>

NextRL ==
    \/ TickRL
    \/ WaitIfNeeded
    \/ RecordRequest

SpecRL == InitRL /\ [][NextRL]_vars

----------------------------------------------------------------------------
(* One run of a function wrapped by exponential_backoff *)

InitBO ==
    /\ now = StartTime
    /\ bo = [pc |-> "idle"]
    /\ bolog = <<>>
    /\ BreakerUnused /\ LedgerUnused /\ RateLimiterUnused /\ AuditUnused /\ WrapperUnused /\ FunctionsUnused /\ CallerUnused /\ ThreadsUnused

\* wrapper(*args, **kwargs) is entered: the for loop starts at attempt 0
BackoffEnter ==
    /\ bo.pc = "idle"
    /\ \E c \in BackoffConfigs :
        bo' = [pc |-> "loop", config |-> c, attempt |-> 0,
               outcome |-> [kind |-> "none"]]
    /\ bolog' = <<>>
    /\ UNCHANGED now
    /\ UNCHANGED <<cbVars, qgVars, rlVars, auVars, wrVars, pfVars, roVars, thVars>>

\* one turn of "for attempt in range(max_retries + 1)": the wrapped function
\* is called, or the range is exhausted and the wrapper returns None
BackoffAttempt ==
    /\ bo.pc = "loop"
    /\ IF bo.attempt > bo.config.max_retries
       THEN /\ bo' = [bo EXCEPT !.pc = "done",
                                !.outcome = [kind |-> "returned", value |-> "None"]]
            /\ bolog' = bolog
       ELSE \E out \in CallOutcomes :
            /\ bolog' = Append(bolog, [ev |-> "call", attempt |-> bo.attempt,
                                       out |-> out])
            /\ bo' = IF out = "returns"
                     THEN [bo EXCEPT !.pc = "done",
                              !.outcome = [kind |-> "returned", value |-> bo.attempt]]
                     ELSE IF out = "BaseException"
                             \/ after_failure(bo.attempt, bo.config.max_retries) = "raise"
                     THEN [bo EXCEPT !.pc = "done",
                              !.outcome = [kind |-> "raised", value |-> bo.attempt]]
                     ELSE [bo EXCEPT !.pc = "sleep"]
    /\ UNCHANGED now
    /\ UNCHANGED <<cbVars, qgVars, rlVars, auVars, wrVars, pfVars, roVars, thVars>>

\* time.sleep(total_delay), then the next turn of the loop
BackoffSleep ==
    /\ bo.pc = "sleep"
    /\ LET delay == backoff_delay(bo.config, bo.attempt) IN
       \E jitter \in backoff_jitters(bo.config, delay) :
        /\ now' = now + delay + jitter
        /\ bolog' = Append(bolog, [ev |-> "sleep", attempt |-> bo.attempt,
                                   total_delay |-> delay + jitter])
    /\ bo' = [bo EXCEPT !.pc = "loop", !.attempt = @ + 1]
    /\ UNCHANGED <<cbVars, qgVars, rlVars, auVars, wrVars, pfVars, roVars, thVars>>

NextBO ==
    \/ BackoffEnter
    \/ BackoffAttempt
    \/ BackoffSleep

SpecBO == InitBO /\ [][NextBO]_vars

----------------------------------------------------------------------------
(* The audit log as a state machine *)

InitAudit ==
    /\ now = StartTime
    /\ AuditUnused /\ WrapperUnused /\ FunctionsUnused /\ CallerUnused /\ ThreadsUnused
    /\ BreakerUnused /\ LedgerUnused /\ RateLimiterUnused /\ BackoffUnused

LogConfigChange ==
    /\ Len(audit) < MaxAuditRows
    /\ \E old_value \in ConfigValues, new_value \in ConfigValues :
        audit' = Append(audit, log_config_change(now, old_value, new_value))
    /\ aret' = [op |-> "log_event", raised |-> "none"]
    /\ UNCHANGED now
    /\ UNCHANGED <<cbVars, qgVars, rlVars, boVars, wrVars, pfVars, roVars, thVars>>

LogQuotaViolation ==
    /\ Len(audit) < MaxAuditRows
    /\ \E details \in CallerDicts :
        audit' = Append(audit, log_quota_violation(now, details))
    /\ aret' = [op |-> "log_event", raised |-> "none"]
    /\ UNCHANGED now
    /\ UNCHANGED <<cbVars, qgVars, rlVars, boVars, wrVars, pfVars, roVars, thVars>>

LogEvaluationStart ==
    /\ Len(audit) < MaxAuditRows
    /\ \E metadata \in CallerDicts \cup {NoneValue} :
        audit' = Append(audit, log_evaluation_start(now, metadata))
    /\ aret' = [op |-> "log_event", raised |-> "none"]
    /\ UNCHANGED now
    /\ UNCHANGED <<cbVars, qgVars, rlVars, boVars, wrVars, pfVars, roVars, thVars>>

LogEvaluationComplete ==
    /\ Len(audit) < MaxAuditRows
    /\ \E grades \in CallerGrades :
        audit' = Append(audit, log_evaluation_complete(now, grades))
    /\ aret' = [op |-> "log_event", raised |-> "none"]
    /\ UNCHANGED now
    /\ UNCHANGED <<cbVars, qgVars, rlVars, boVars, wrVars, pfVars, roVars, thVars>>

NextAudit ==
    \/ LogConfigChange
    \/ LogQuotaViolation
    \/ LogEvaluationStart
    \/ LogEvaluationComplete

SpecAudit == InitAudit /\ [][NextAudit]_vars

----------------------------------------------------------------------------
(* The ledger, the quota gate and the audit log over a store that can fail *)

\* what one access to the sqlite file does: it succeeds or it raises
StoreOutcomes == {"ok", "sqlite3.OperationalError"}

\* record_usage over such a store.  The insert and the reads of
\* _check_budget_limits are in no try block: what the insert raises leaves the
\* function before the row is committed, what a read raises leaves it after.
record_usage_store(rows, limits, t, model, token_usage, insert, read) ==
    LET res == record_usage(rows, limits, t, model, token_usage)
    IN  IF insert # "ok" THEN [rows |-> rows, raised |-> insert]
        ELSE IF read # "ok" THEN [rows |-> res.rows, raised |-> read]
        ELSE [rows |-> res.rows, raised |-> res.raised]

\* QuotaEnforcer.check_quota_compliance over such a store: the tracker's reads
\* of the ledger are in no try block, in the tracker or in the enforcer
check_quota_compliance_store(rows, limits, t, request, read) ==
    IF read # "ok"
    THEN [raised |-> read, status |-> "none"]
    ELSE [raised |-> "none",
          status |-> check_quota_compliance(rows, limits, t, request.model,
                         request.input_tokens, request.output_tokens,
                         request.context_tokens).status]

\* enforce_quota over such a store: it calls check_quota_compliance outside any
\* try block, then raises QuotaException as it does over a sound store
enforce_quota_store(rows, limits, t, request, allow_warnings, read) ==
    IF read # "ok"
    THEN [raised |-> read]
    ELSE [raised |-> enforce_quota(rows, limits, t, request.model,
                         request.input_tokens, request.output_tokens,
                         request.context_tokens, allow_warnings).raised]

\* log_event over such a store: the insert is in no try block
log_event_store(rows, row, append) ==
    IF append # "ok"
    THEN [rows |-> rows, raised |-> append]
    ELSE [rows |-> Append(rows, row), raised |-> "none"]

InitStore ==
    /\ now = StartTime
    /\ BreakerUnused
    /\ policy \in Policies
    /\ ledger = <<>>
    /\ qret = [op |-> "init"]
    /\ RateLimiterUnused /\ BackoffUnused /\ AuditUnused /\ WrapperUnused /\ FunctionsUnused /\ CallerUnused /\ ThreadsUnused

RecordUsageStore ==
    /\ Len(ledger) < MaxRecords
    /\ \E r \in RecordRequests, insert \in StoreOutcomes, read \in StoreOutcomes :
        LET res == record_usage_store(ledger, policy, now, r.model,
                       TokenUsage(r.input_tokens, r.output_tokens, 0,
                                  r.context_tokens, context_window(r.model)),
                       insert, read)
        IN  /\ ledger' = res.rows
            /\ qret' = [op |-> "record_usage", raised |-> res.raised]
    /\ UNCHANGED <<now, policy>>
    /\ UNCHANGED <<cbVars, rlVars, boVars, auVars, wrVars, pfVars, roVars, thVars>>

CheckStore ==
    /\ \E r \in CheckRequests, read \in StoreOutcomes :
        LET res == check_quota_compliance_store(ledger, policy, now, r, read)
        IN  qret' = [op |-> "check", raised |-> res.raised, status |-> res.status]
    /\ UNCHANGED <<now, policy, ledger>>
    /\ UNCHANGED <<cbVars, rlVars, boVars, auVars, wrVars, pfVars, roVars, thVars>>

EnforceStore ==
    /\ \E r \in EnforceRequests, allow_warnings \in BOOLEAN, read \in StoreOutcomes :
        LET res == enforce_quota_store(ledger, policy, now, r, allow_warnings, read)
        IN  qret' = [op |-> "enforce", raised |-> res.raised]
    /\ UNCHANGED <<now, policy, ledger>>
    /\ UNCHANGED <<cbVars, rlVars, boVars, auVars, wrVars, pfVars, roVars, thVars>>

LogEventStore ==
    /\ Len(audit) < MaxAuditRows
    /\ \E details \in CallerDicts, append \in StoreOutcomes :
        LET res == log_event_store(audit, log_quota_violation(now, details), append)
        IN  /\ audit' = res.rows
            /\ aret' = [op |-> "log_event", raised |-> res.raised]
    /\ UNCHANGED now
    /\ UNCHANGED <<cbVars, qgVars, rlVars, boVars, wrVars, pfVars, roVars, thVars>>

NextStore ==
    \/ RecordUsageStore
    \/ CheckStore
    \/ EnforceStore
    \/ LogEventStore

SpecStore == InitStore /\ [][NextStore]_vars

----------------------------------------------------------------------------
(* Workers calling functions wrapped by rate_limited.  The breaker and the
   limiter are the module's two global objects; the histories of the
   single-caller breaker machine are not kept here. *)

\* the breaker configurations of the wrapper's machine
WrapConfigs == {c \in Configs : c.failure_threshold = 1 /\ c.success_threshold = 1}

InitWrap ==
    /\ now = StartTime
    /\ cfg \in WrapConfigs
    /\ cb = CircuitBreakerInit(now)
    /\ ret = [op |-> "init"]
    /\ consec = 0
    /\ cleanRun = 0
    /\ hoSucc = 0
    /\ reopenTime = -1
    /\ LedgerUnused /\ RateLimiterUnused /\ BackoffUnused /\ AuditUnused /\ FunctionsUnused /\ CallerUnused /\ ThreadsUnused
    /\ WrapperUnused

\* time passes: a second, or what a sleeping worker still has to sleep
TickWrap ==
    /\ wrh.ticks < MaxWrapTicks
    /\ \E d \in {1} \cup {wr[w].wake_at - now :
                            w \in {v \in Workers : wr[v].pc = "sleeping"
                                                   /\ wr[v].wake_at > now}} :
        now' = now + d
    /\ wrh' = [wrh EXCEPT !.ticks = @ + 1]
    /\ UNCHANGED wr
    /\ UNCHANGED <<cbVars, qgVars, rlVars, boVars, auVars, pfVars, roVars, thVars>>

\* the wrapper is entered and calls can_request
WrapCanRequest(w) ==
    /\ wr[w].pc \in {"idle", "done"}
    /\ wrh.invocations < MaxInvocations
    /\ \E tok \in Estimates, cost \in Estimates :
        LET r == can_request(cb, cfg, now, tok, cost)
            b1 == reset_stats_if_needed(cb, now)
        IN  /\ cb' = r.cb
            /\ wr' = [wr EXCEPT ![w] =
                        [pc |-> IF r.result THEN "admitted" ELSE "refused",
                         estimated_tokens |-> tok,
                         estimated_cost |-> cost,
                         cause |-> IF r.result THEN "none"
                                   ELSE IF check_cost_limits(b1, cfg, tok, cost)
                                   THEN "ceiling" ELSE "open",
                         state |-> b1.state,
                         elapsed |-> now - b1.last_failure_time > cfg.recovery_timeout,
                         wake_at |-> 0,
                         trace |-> <<"can_request">>,
                         outcome |-> "none",
                         raised |-> "none"]]
    /\ wrh' = [wrh EXCEPT !.invocations = @ + 1]
    /\ UNCHANGED <<now, cfg, ret, consec, cleanRun, hoSucc, reopenTime>>
    /\ UNCHANGED <<qgVars, rlVars, boVars, auVars, pfVars, roVars, thVars>>

\* can_request has returned false: the wrapper reads the state and raises
WrapRefuse(w) ==
    /\ wr[w].pc = "refused"
    /\ wr' = [wr EXCEPT ![w].pc = "done",
                        ![w].raised = refusal_error(cb.state),
                        ![w].trace = Append(@, "raise")]
    /\ UNCHANGED <<now, wrh>>
    /\ UNCHANGED <<cbVars, qgVars, rlVars, boVars, auVars, pfVars, roVars, thVars>>

\* the wrapper calls wait_if_needed, which may go to sleep
WrapWaitIfNeeded(w) ==
    /\ wr[w].pc = "admitted"
    /\ LET x == wait_if_needed(rl, rlcfg, now) IN
        /\ rl' = x.rl
        /\ wr' = [wr EXCEPT ![w].pc = IF x.slept > 0 THEN "sleeping" ELSE "waited",
                            ![w].wake_at = now + x.slept,
                            ![w].trace = Append(@, "wait_if_needed")]
    /\ UNCHANGED <<now, wrh, rlcfg, rlpc, rlh>>
    /\ UNCHANGED <<cbVars, qgVars, boVars, auVars, pfVars, roVars, thVars>>

\* time.sleep returns
WrapWake(w) ==
    /\ wr[w].pc = "sleeping"
    /\ now >= wr[w].wake_at
    /\ wr' = [wr EXCEPT ![w].pc = "waited"]
    /\ UNCHANGED <<now, wrh>>
    /\ UNCHANGED <<cbVars, qgVars, rlVars, boVars, auVars, pfVars, roVars, thVars>>

\* the wrapper calls record_request
WrapRecordRequest(w) ==
    /\ wr[w].pc = "waited"
    /\ rl' = record_request(rl, now)
    /\ wr' = [wr EXCEPT ![w].pc = "recorded",
                        ![w].trace = Append(@, "record_request")]
    /\ UNCHANGED <<now, wrh, rlcfg, rlpc, rlh>>
    /\ UNCHANGED <<cbVars, qgVars, boVars, auVars, pfVars, roVars, thVars>>

\* the wrapper calls the wrapped function
WrapInvoke(w) ==
    /\ wr[w].pc = "recorded"
    /\ wr' = [wr EXCEPT ![w].pc = "in_func", ![w].trace = Append(@, "func")]
    /\ UNCHANGED <<now, wrh>>
    /\ UNCHANGED <<cbVars, qgVars, rlVars, boVars, auVars, pfVars, roVars, thVars>>

\* the wrapped function returns or raises, and the wrapper accounts for it
WrapFinish(w) ==
    /\ wr[w].pc = "in_func"
    /\ \E o \in FuncOutcomes :
        LET e == try_block_raises(o) IN
        /\ cb' = IF e = "none"
                 THEN record_success(cb, cfg, now,
                          tokens_used(o, wr[w].estimated_tokens),
                          wr[w].estimated_cost)
                 ELSE IF e \in {"Exception", "AttributeError"}
                 THEN record_failure(cb, cfg, now)
                 ELSE cb
        /\ wr' = [wr EXCEPT ![w].pc = "done",
                            ![w].outcome = o.kind,
                            ![w].raised = e,
                            ![w].trace =
                                @ \o (IF e = "none"
                                      THEN <<"record_success", "return">>
                                      ELSE IF e \in {"Exception", "AttributeError"}
                                      THEN <<"record_failure", "raise">>
                                      ELSE <<"raise">>)]
    /\ UNCHANGED <<now, wrh, cfg, ret, consec, cleanRun, hoSucc, reopenTime>>
    /\ UNCHANGED <<qgVars, rlVars, boVars, auVars, pfVars, roVars, thVars>>

NextWrap ==
    \/ TickWrap
    \/ \E w \in Workers : WrapCanRequest(w)
    \/ \E w \in Workers : WrapRefuse(w)
    \/ \E w \in Workers : WrapWaitIfNeeded(w)
    \/ \E w \in Workers : WrapWake(w)
    \/ \E w \in Workers : WrapRecordRequest(w)
    \/ \E w \in Workers : WrapInvoke(w)
    \/ \E w \in Workers : WrapFinish(w)

SpecWrap == InitWrap /\ [][NextWrap]_vars

----------------------------------------------------------------------------
(* The compliance score of the audit log's summary *)

\* the event counts get_compliance_summary finds in the log
ViolationCounts == {0, 1, 2, 10, 11}
AlertCounts == {0, 1, 4, 10, 20}
DegradationCounts == {0, 1, 15, 30, 50}

InitScore ==
    /\ now = StartTime
    /\ BreakerUnused /\ LedgerUnused /\ RateLimiterUnused /\ BackoffUnused
    /\ AuditUnused /\ WrapperUnused /\ FunctionsUnused /\ CallerUnused /\ ThreadsUnused

CalculateComplianceScore ==
    /\ \E violations \in ViolationCounts, alerts \in AlertCounts,
          degradations \in DegradationCounts :
        /\ pin' = [op |-> "compliance_score", violations |-> violations,
                   alerts |-> alerts, degradations |-> degradations]
        /\ pout' = calculate_compliance_score(violations, alerts, degradations)
    /\ UNCHANGED now
    /\ UNCHANGED <<cbVars, qgVars, rlVars, boVars, auVars, wrVars, roVars, thVars>>

NextScore == CalculateComplianceScore

SpecScore == InitScore /\ [][NextScore]_vars

----------------------------------------------------------------------------
(* The performance tier of a context utilization *)

\* the utilizations the monitor is asked about, in thousandths: a context can
\* be overfull
Utilizations == 0..MaxUtilization

InitTier ==
    /\ now = StartTime
    /\ BreakerUnused /\ LedgerUnused /\ RateLimiterUnused /\ BackoffUnused
    /\ AuditUnused /\ WrapperUnused /\ FunctionsUnused /\ CallerUnused /\ ThreadsUnused

AssessPerformanceTier ==
    /\ \E context_utilization \in Utilizations :
        /\ pin' = [op |-> "assess_performance_tier",
                   context_utilization |-> context_utilization]
        /\ pout' = [op |-> "assess_performance_tier",
                    tier |-> assess_performance_tier(context_utilization)]
    /\ UNCHANGED now
    /\ UNCHANGED <<cbVars, qgVars, rlVars, boVars, auVars, wrVars, roVars, thVars>>

NextTier == AssessPerformanceTier

SpecTier == InitTier /\ [][NextTier]_vars

----------------------------------------------------------------------------
(* The breaker and one caller whose usage is what it estimated: every call
   can_request admits is followed by record_success with the same tokens and
   cost *)

InitCaller ==
    /\ now = StartTime
    /\ cfg \in Configs
    /\ cb = CircuitBreakerInit(now)
    /\ ret = [op |-> "init"]
    /\ consec = 0
    /\ cleanRun = 0
    /\ hoSucc = 0
    /\ reopenTime = -1
    /\ LedgerUnused /\ RateLimiterUnused /\ BackoffUnused /\ AuditUnused /\ ThreadsUnused
    /\ WrapperUnused /\ FunctionsUnused /\ CallerUnused

\* the instants at which the caller acts: the first seconds of the breaker's
\* life and the seconds around the end of its first statistics window
CallerTimes ==
    {StartTime + k : k \in 0..Slack}
    \cup {StartTime + HourWindow - 1 + k : k \in 0..Slack}

\* time passes between two calls
TickCaller ==
    /\ \E t \in CallerTimes :
        /\ t > now
        /\ now' = t
    /\ UNCHANGED <<cbVars, qgVars, rlVars, boVars, auVars, wrVars, pfVars, roVars, thVars>>

CallerCanRequest ==
    /\ pend.op = "none"
    /\ Len(admitted) < MaxAdmitted
    /\ \E tok \in Estimates, cost \in Estimates :
        LET r == can_request(cb, cfg, now, tok, cost) IN
        /\ cb' = r.cb
        /\ ret' = [op |-> "can_request", tokens |-> tok, cost |-> cost,
                   result |-> r.result]
        /\ pend' = IF r.result
                   THEN [op |-> "admitted", tokens |-> tok, cost |-> cost]
                   ELSE pend
        /\ admitted' = IF r.result
                       THEN Append(admitted, [time |-> now, tokens |-> tok,
                                              cost |-> cost])
                       ELSE admitted
    /\ UNCHANGED <<now, cfg, consec, cleanRun, hoSucc, reopenTime>>
    /\ UNCHANGED <<qgVars, rlVars, boVars, auVars, wrVars, pfVars, thVars>>

CallerRecordSuccess ==
    /\ pend.op = "admitted"
    /\ cb' = record_success(cb, cfg, now, pend.tokens, pend.cost)
    /\ ret' = [op |-> "record_success"]
    /\ pend' = [op |-> "none"]
    /\ UNCHANGED <<now, cfg, consec, cleanRun, hoSucc, reopenTime, admitted>>
    /\ UNCHANGED <<qgVars, rlVars, boVars, auVars, wrVars, pfVars, thVars>>

NextCaller ==
    \/ TickCaller
    \/ CallerCanRequest
    \/ CallerRecordSuccess

SpecCaller == InitCaller /\ [][NextCaller]_vars

----------------------------------------------------------------------------
(* record_usage called with a TokenUsage the caller has built *)

\* the TokenUsage objects callers build: total_tokens left at 0 or given, equal
\* to the sum or not; the context limit of gpt-5 or of o3
CallerUsages ==
    {TokenUsage(0, 0, 0, 0, 128000),
     TokenUsage(1000, 500, 0, 1000, 128000),
     TokenUsage(1000, 500, 1500, 1000, 200000),
     TokenUsage(1000, 500, 1000, 1000, 128000),
     TokenUsage(1000, 0, 2000, 0, 200000)}

\* the models they name
CallerModels == {"gpt-5", "o3", "mystery"}

InitUsage ==
    /\ now = StartTime
    /\ BreakerUnused
    /\ policy \in Policies
    /\ ledger = <<>>
    /\ qret = [op |-> "init"]
    /\ RateLimiterUnused /\ BackoffUnused /\ AuditUnused /\ ThreadsUnused
    /\ WrapperUnused /\ FunctionsUnused /\ CallerUnused

RecordUsageDirect ==
    /\ Len(ledger) < MaxRecords
    /\ \E model \in CallerModels, token_usage \in CallerUsages :
        LET res == record_usage(ledger, policy, now, model, token_usage)
        IN  /\ ledger' = res.rows
            /\ qret' = [op |-> "record_usage", cost_record |-> res.cost_record,
                        logged |-> res.logged, raised |-> res.raised]
    /\ UNCHANGED <<now, policy>>
    /\ UNCHANGED <<cbVars, rlVars, boVars, auVars, wrVars, pfVars, roVars, thVars>>

NextUsage == RecordUsageDirect

SpecUsage == InitUsage /\ [][NextUsage]_vars

----------------------------------------------------------------------------
(* The breaker and its one caller over unbounded time.  The breaker looks at
   the times it holds only through their distance to the clock, and beyond
   HourWindow all distances are the same to it.  So the clock stands still
   and, when time passes, the times the breaker holds move back instead, no
   further than HourWindow + 1 before the clock.  The two counters that only
   get_stats reports, successful_requests and request_times, are kept up to
   MaxSuccesses. *)

\* the time x, d seconds later
Aged(x, d) ==
    IF x - d < now - (HourWindow + 1) THEN now - (HourWindow + 1) ELSE x - d

\* the breaker, d seconds later
AgedBreaker(b, d) ==
    [b EXCEPT !.last_failure_time = Aged(@, d),
              !.stats.last_reset = Aged(@, d),
              !.stats.request_times = [i \in DOMAIN @ |-> Aged(@[i], d)]]

\* the times the breaker holds
BreakerTimes(b) ==
    {b.last_failure_time, b.stats.last_reset}
    \cup {b.stats.request_times[i] : i \in DOMAIN b.stats.request_times}

\* the breaker with the reported counters kept up to MaxSuccesses
Reported(b) ==
    [b EXCEPT !.stats.successful_requests =
                    IF @ > MaxSuccesses THEN MaxSuccesses ELSE @,
              !.stats.request_times =
                    IF Len(@) > MaxSuccesses
                    THEN SubSeq(@, Len(@) - MaxSuccesses + 1, Len(@))
                    ELSE @]

InitLive ==
    /\ now = StartTime + HourWindow + 1
    /\ cfg \in Configs
    /\ cb = AgedBreaker(CircuitBreakerInit(now), 0)
    /\ ret = [op |-> "init"]
    /\ consec = 0
    /\ cleanRun = 0
    /\ hoSucc = 0
    /\ reopenTime = -1
    /\ LedgerUnused /\ RateLimiterUnused /\ BackoffUnused /\ AuditUnused /\ ThreadsUnused
    /\ WrapperUnused /\ FunctionsUnused /\ CallerUnused

\* a second passes, as long as the times of the last Slack seconds stay within
\* them; or an hour passes
LiveTick ==
    /\ \E d \in {1, HourWindow} :
        /\ d = 1 => \A x \in BreakerTimes(cb) :
                        now - x + 1 <= Slack \/ now - x >= HourWindow
        /\ cb' = AgedBreaker(cb, d)
    /\ UNCHANGED <<now, cfg, ret, consec, cleanRun, hoSucc, reopenTime>>
    /\ UNCHANGED <<qgVars, rlVars, boVars, auVars, wrVars, pfVars, roVars, thVars>>

LiveCanRequest ==
    /\ pend.op = "none"
    /\ \E tok \in Estimates, cost \in Estimates :
        LET r == can_request(cb, cfg, now, tok, cost) IN
        /\ cb' = r.cb
        /\ pend' = IF r.result
                   THEN [op |-> "admitted", tokens |-> tok, cost |-> cost]
                   ELSE pend
    /\ UNCHANGED <<now, cfg, ret, consec, cleanRun, hoSucc, reopenTime, admitted>>
    /\ UNCHANGED <<qgVars, rlVars, boVars, auVars, wrVars, pfVars, thVars>>

\* the admitted call returns, having used as many tokens as estimated or not
LiveRecordSuccess ==
    /\ pend.op = "admitted"
    /\ \E tokens \in Estimates :
        cb' = Reported(record_success(cb, cfg, now, tokens, pend.cost))
    /\ pend' = [op |-> "none"]
    /\ UNCHANGED <<now, cfg, ret, consec, cleanRun, hoSucc, reopenTime, admitted>>
    /\ UNCHANGED <<qgVars, rlVars, boVars, auVars, wrVars, pfVars, thVars>>

\* the admitted call raises
LiveRecordFailure ==
    /\ pend.op = "admitted"
    /\ cb.stats.failed_requests < MaxFailures
    /\ cb' = record_failure(cb, cfg, now)
    /\ pend' = [op |-> "none"]
    /\ UNCHANGED <<now, cfg, ret, consec, cleanRun, hoSucc, reopenTime, admitted>>
    /\ UNCHANGED <<qgVars, rlVars, boVars, auVars, wrVars, pfVars, thVars>>

NextLive ==
    \/ LiveTick
    \/ LiveCanRequest
    \/ LiveRecordSuccess
    \/ LiveRecordFailure

\* time keeps passing, the caller keeps calling can_request, and every call
\* that is admitted and does not raise is followed by record_success
SpecLive ==
    /\ InitLive
    /\ [][NextLive]_vars
    /\ WF_vars(LiveTick)
    /\ WF_vars(LiveCanRequest)
    /\ WF_vars(LiveRecordSuccess)

----------------------------------------------------------------------------
(* Worker threads that share one CostTracker, one QuotaEnforcer and one
   CircuitBreaker.  A call is a sequence of steps, and the steps of the
   threads interleave: taking a lock, an INSERT, a SELECT, reading the
   counters and writing them back are one step each. *)

\* what a worker estimates and then records: a dear and a cheap model
GateRequests ==
    {Request("o3", 2000, 0, 0), Request("o3", 1000, 0, 0),
     Request("gpt-5", 2000, 0, 0)}

InitThreads ==
    /\ now = StartTime
    /\ cfg = CHOOSE c \in Configs : TRUE
    /\ cb = CircuitBreakerInit(now)
    /\ ret = [op |-> "init"]
    /\ consec = 0
    /\ cleanRun = 0
    /\ hoSucc = 0
    /\ reopenTime = -1
    /\ policy = BudgetLimits
    /\ ledger = <<>>
    /\ qret = [op |-> "init"]
    /\ RateLimiterUnused /\ BackoffUnused /\ AuditUnused /\ WrapperUnused
    /\ FunctionsUnused /\ CallerUnused
    /\ th = [w \in Workers |-> ThreadIdle]
    /\ locks = [tracker |-> "free", breaker |-> "free"]
    /\ booked = [records |-> 0, cost |-> 0, tokens |-> 0,
                 successes |-> 0, tokens_used |-> 0, breaker_cost |-> 0,
                 usage_overlaps |-> 0, success_overlaps |-> 0]

\* where a thread inside CostTracker.record_usage may be
InRecordUsage == {"prepared", "locked", "inserted", "released"}

\* where a thread inside CircuitBreaker.record_success may be
InRecordSuccess == {"calling", "holding", "loaded", "stored"}

\* QuotaEnforcer.check_quota_compliance: the worker goes on to record its
\* usage unless the check is BLOCKED
GateCheck(w) ==
    /\ th[w].pc = "idle"
    /\ th[w].jobs < MaxJobs
    /\ \E r \in GateRequests :
        LET q == check_quota_compliance(ledger, policy, now, r.model,
                     r.input_tokens, r.output_tokens, r.context_tokens)
        IN  th' = [th EXCEPT ![w] =
                [ThreadIdle EXCEPT
                    !.pc = IF q.status = BLOCKED THEN "idle" ELSE "checked",
                    !.job = "gate",
                    !.jobs = th[w].jobs + (IF q.status = BLOCKED THEN 1 ELSE 0),
                    !.model = r.model,
                    !.input_tokens = r.input_tokens,
                    !.output_tokens = r.output_tokens,
                    !.status = q.status,
                    !.estimated_cost = q.estimated_cost,
                    !.estimated_tokens = q.estimated_tokens,
                    !.seen = Len(ledger)]]
    /\ UNCHANGED <<now, locks, booked>>
    /\ UNCHANGED <<cbVars, qgVars, rlVars, boVars, auVars, wrVars, pfVars, roVars>>

\* record_usage up to the lock, for the usage the check was asked about: the
\* timestamp is taken and the record built
GateProceed(w) ==
    /\ th[w].pc = "checked"
    /\ th' = [th EXCEPT
                ![w].pc = "prepared",
                ![w].timestamp = now,
                ![w].record_cost =
                    calculate_cost(th[w].model,
                        TokenUsage(th[w].input_tokens, th[w].output_tokens, 0, 0,
                                   context_window(th[w].model))).total_cost]
    /\ booked' = [booked EXCEPT !.usage_overlaps =
                    @ + (IF \E v \in Workers \ {w} : th[v].pc \in InRecordUsage
                         THEN 1 ELSE 0)]
    /\ UNCHANGED <<now, locks>>
    /\ UNCHANGED <<cbVars, qgVars, rlVars, boVars, auVars, wrVars, pfVars, roVars>>

\* record_usage is called without a check, and runs up to the lock
UsageCall(w) ==
    /\ th[w].pc = "idle"
    /\ th[w].jobs < MaxJobs
    /\ \E r \in GateRequests :
        th' = [th EXCEPT ![w] =
            [ThreadIdle EXCEPT
                !.pc = "prepared",
                !.job = "usage",
                !.jobs = th[w].jobs,
                !.model = r.model,
                !.input_tokens = r.input_tokens,
                !.output_tokens = r.output_tokens,
                !.timestamp = now,
                !.record_cost =
                    calculate_cost(r.model,
                        TokenUsage(r.input_tokens, r.output_tokens, 0, 0,
                                   context_window(r.model))).total_cost]]
    /\ booked' = [booked EXCEPT !.usage_overlaps =
                    @ + (IF \E v \in Workers \ {w} : th[v].pc \in InRecordUsage
                         THEN 1 ELSE 0)]
    /\ UNCHANGED <<now, locks>>
    /\ UNCHANGED <<cbVars, qgVars, rlVars, boVars, auVars, wrVars, pfVars, roVars>>

\* with self._lock:
UsageAcquire(w) ==
    /\ th[w].pc = "prepared"
    /\ lock_free(locks.tracker)
    /\ locks' = [locks EXCEPT !.tracker = w]
    /\ th' = [th EXCEPT ![w].pc = "locked"]
    /\ UNCHANGED <<now, booked>>
    /\ UNCHANGED <<cbVars, qgVars, rlVars, boVars, auVars, wrVars, pfVars, roVars>>

\* the INSERT and its commit
UsageInsert(w) ==
    /\ th[w].pc = "locked"
    /\ ledger' = record_evaluation_cost(ledger, policy, th[w].timestamp,
                     th[w].model, th[w].input_tokens, th[w].output_tokens, 0).rows
    /\ th' = [th EXCEPT ![w].pc = "inserted", ![w].row = Len(ledger')]
    /\ UNCHANGED <<now, policy, qret, locks, booked>>
    /\ UNCHANGED <<cbVars, rlVars, boVars, auVars, wrVars, pfVars, roVars>>

\* the lock is released
UsageRelease(w) ==
    /\ th[w].pc = "inserted"
    /\ locks' = [locks EXCEPT !.tracker = "free"]
    /\ th' = [th EXCEPT ![w].pc = "released"]
    /\ UNCHANGED <<now, booked>>
    /\ UNCHANGED <<cbVars, qgVars, rlVars, boVars, auVars, wrVars, pfVars, roVars>>

\* _check_budget_limits, and record_usage returns; the frame is gone, but what
\* a worker that checked first knows of its check and of its record is kept
UsageReturn(w) ==
    /\ th[w].pc = "released"
    /\ th' = [th EXCEPT ![w] =
                [(IF th[w].job = "gate" THEN th[w] ELSE ThreadIdle) EXCEPT
                    !.pc = "idle",
                    !.jobs = th[w].jobs + 1,
                    !.logged = check_budget_limits(ledger, policy, now,
                                                   ledger[th[w].row])]]
    /\ booked' = [booked EXCEPT
                    !.records = @ + 1,
                    !.cost = @ + th[w].record_cost,
                    !.tokens = @ + th[w].input_tokens + th[w].output_tokens]
    /\ UNCHANGED <<now, locks>>
    /\ UNCHANGED <<cbVars, qgVars, rlVars, boVars, auVars, wrVars, pfVars, roVars>>

\* record_success is called
SuccessCall(w) ==
    /\ th[w].pc = "idle"
    /\ th[w].jobs < MaxJobs
    /\ \E tokens \in Estimates, cost \in Estimates :
        th' = [th EXCEPT ![w] =
                [ThreadIdle EXCEPT !.pc = "calling",
                                   !.job = "success",
                                   !.jobs = th[w].jobs,
                                   !.tokens_used = tokens,
                                   !.cost = cost]]
    /\ booked' = [booked EXCEPT !.success_overlaps =
                    @ + (IF \E v \in Workers \ {w} : th[v].pc \in InRecordSuccess
                         THEN 1 ELSE 0)]
    /\ UNCHANGED <<now, locks>>
    /\ UNCHANGED <<cbVars, qgVars, rlVars, boVars, auVars, wrVars, pfVars, roVars>>

\* with self._lock:
SuccessAcquire(w) ==
    /\ th[w].pc = "calling"
    /\ lock_free(locks.breaker)
    /\ locks' = [locks EXCEPT !.breaker = w]
    /\ th' = [th EXCEPT ![w].pc = "holding"]
    /\ UNCHANGED <<now, booked>>
    /\ UNCHANGED <<cbVars, qgVars, rlVars, boVars, auVars, wrVars, pfVars, roVars>>

\* the three counters are read
SuccessLoad(w) ==
    /\ th[w].pc = "holding"
    /\ th' = [th EXCEPT
                ![w].pc = "loaded",
                ![w].successful_requests = cb.stats.successful_requests,
                ![w].total_tokens = cb.stats.total_tokens,
                ![w].total_cost = cb.stats.total_cost]
    /\ UNCHANGED <<now, locks, booked>>
    /\ UNCHANGED <<cbVars, qgVars, rlVars, boVars, auVars, wrVars, pfVars, roVars>>

\* the counters are written back, each grown by the call's contribution, and
\* the rest of record_success follows
SuccessStore(w) ==
    /\ th[w].pc = "loaded"
    /\ cb' = record_success(
                [cb EXCEPT
                    !.stats.successful_requests = th[w].successful_requests,
                    !.stats.total_tokens = th[w].total_tokens,
                    !.stats.total_cost = th[w].total_cost],
                cfg, now, th[w].tokens_used, th[w].cost)
    /\ th' = [th EXCEPT ![w].pc = "stored"]
    /\ UNCHANGED <<now, cfg, ret, consec, cleanRun, hoSucc, reopenTime, locks, booked>>
    /\ UNCHANGED <<qgVars, rlVars, boVars, auVars, wrVars, pfVars, roVars>>

\* the lock is released and record_success returns
SuccessRelease(w) ==
    /\ th[w].pc = "stored"
    /\ locks' = [locks EXCEPT !.breaker = "free"]
    /\ th' = [th EXCEPT ![w] = [ThreadIdle EXCEPT !.jobs = th[w].jobs + 1]]
    /\ booked' = [booked EXCEPT
                    !.successes = @ + 1,
                    !.tokens_used = @ + th[w].tokens_used,
                    !.breaker_cost = @ + th[w].cost]
    /\ UNCHANGED now
    /\ UNCHANGED <<cbVars, qgVars, rlVars, boVars, auVars, wrVars, pfVars, roVars>>

\* workers that check and then record
NextGate ==
    \/ \E w \in Workers : GateCheck(w)
    \/ \E w \in Workers : GateProceed(w)
    \/ \E w \in Workers : UsageAcquire(w)
    \/ \E w \in Workers : UsageInsert(w)
    \/ \E w \in Workers : UsageRelease(w)
    \/ \E w \in Workers : UsageReturn(w)

SpecGate == InitThreads /\ [][NextGate]_vars

\* workers that record usage and record successes
NextThreads ==
    \/ \E w \in Workers : UsageCall(w)
    \/ \E w \in Workers : UsageAcquire(w)
    \/ \E w \in Workers : UsageInsert(w)
    \/ \E w \in Workers : UsageRelease(w)
    \/ \E w \in Workers : UsageReturn(w)
    \/ \E w \in Workers : SuccessCall(w)
    \/ \E w \in Workers : SuccessAcquire(w)
    \/ \E w \in Workers : SuccessLoad(w)
    \/ \E w \in Workers : SuccessStore(w)
    \/ \E w \in Workers : SuccessRelease(w)

SpecThreads == InitThreads /\ [][NextThreads]_vars

----------------------------------------------------------------------------
(* The circuit breaker's state machine *)

\* a step in which can_request has returned
CanRequestReturned == ret'.op = "can_request" /\ now' = now

\* the recovery timeout has elapsed since the last recorded failure
Elapsed == now - cb.last_failure_time > cfg.recovery_timeout

\* C1: from CLOSED with the failure counter at 0, the failure_threshold-th
\* record_failure in a row (no record_success in between) leaves the breaker
\* OPEN, and every can_request made while no more than recovery_timeout
\* seconds have passed since the last failure returns false and leaves it OPEN.
C1_OpenAfterThresholdFailures ==
    [][ /\ (RecordFailure /\ cleanRun' = cfg.failure_threshold)
            => cb'.state = OPEN
        /\ (CanRequestReturned /\ cleanRun >= cfg.failure_threshold /\ ~Elapsed)
            => (ret'.result = FALSE /\ cb'.state = OPEN) ]_vars

\* two failures in a row opened the breaker, and a call with a zero estimate
\* made at the very end of the recovery timeout was refused
C1_Witness ==
    /\ cfg.failure_threshold = 2
    /\ cleanRun = 2
    /\ cb.state = OPEN
    /\ ret.op = "can_request" /\ ret.tokens = 0 /\ ret.cost = 0
    /\ ret.result = FALSE
    /\ now - cb.last_failure_time = cfg.recovery_timeout

\* C2, as claimed: when the breaker is OPEN and the recovery timeout has
\* elapsed, the next can_request, whatever its estimates, moves the breaker to
\* HALF_OPEN with the success counter at 0.
C2_AnyCallHalfOpens ==
    [][ (CanRequestReturned /\ cb.state = OPEN /\ Elapsed)
        => (cb'.state = HALF_OPEN /\ cb'.success_count = 0) ]_vars

\* the estimate of the last can_request fits under both hourly ceilings, given
\* what the statistics window holds after the call's own reset
LastEstimateFits(b, r) ==
    /\ b.stats.total_tokens + r.tokens <= cfg.max_tokens_per_hour
    /\ b.stats.total_cost + r.cost <= cfg.max_cost_per_hour

\* C2, amended: when the breaker is OPEN and the recovery timeout has elapsed,
\* the next can_request moves the breaker to HALF_OPEN with the success
\* counter at 0 and returns true if its estimate fits under the hourly token
\* and cost ceilings; if it does not fit, the call returns false and the
\* breaker stays OPEN.
C2_FittingCallHalfOpens ==
    [][ (CanRequestReturned /\ cb.state = OPEN /\ Elapsed)
        => IF LastEstimateFits(cb', ret')
           THEN cb'.state = HALF_OPEN /\ cb'.success_count = 0
                /\ ret'.result = TRUE
           ELSE cb'.state = OPEN /\ ret'.result = FALSE ]_vars

\* a call with a token estimate has just moved the breaker to HALF_OPEN after a
\* success had used up the token ceiling of a window that has since been reset
C2_Witness ==
    /\ cb.state = HALF_OPEN /\ cb.success_count = 0
    /\ ret.op = "can_request" /\ ret.tokens = 1 /\ ret.result = TRUE
    /\ cb.stats.successful_requests >= 1
    /\ cb.stats.last_reset > StartTime

\* C3: while HALF_OPEN, the success_threshold-th record_success in a row sets
\* the state to CLOSED and the failure counter to 0; an earlier one leaves the
\* state HALF_OPEN and the failure counter unchanged.
C3_HalfOpenSuccesses ==
    [][ (RecordSuccess /\ cb.state = HALF_OPEN)
        => /\ hoSucc + 1 = cfg.success_threshold
                => (cb'.state = CLOSED /\ cb'.failure_count = 0)
           /\ hoSucc + 1 < cfg.success_threshold
                => (cb'.state = HALF_OPEN
                    /\ cb'.failure_count = cb.failure_count)
           /\ hoSucc + 1 <= cfg.success_threshold ]_vars

\* the second of two successes in HALF_OPEN has just closed the breaker
C3_Witness ==
    /\ cfg.success_threshold = 2
    /\ ret.op = "record_success"
    /\ cb.state = CLOSED /\ cb.failure_count = 0 /\ cb.success_count = 2
    /\ cb.stats.failed_requests >= 1

\* C4: one record_failure while HALF_OPEN sets the state to OPEN, whatever the
\* number of successes counted, and until recovery_timeout seconds have passed
\* since that failure every can_request returns false and leaves it OPEN.
C4_HalfOpenFailureReopens ==
    [][ /\ (RecordFailure /\ cb.state = HALF_OPEN) => cb'.state = OPEN
        /\ (CanRequestReturned /\ reopenTime # -1
                /\ now - reopenTime <= cfg.recovery_timeout)
            => (ret'.result = FALSE /\ cb'.state = OPEN) ]_vars

\* a failure reopened the breaker after a success had been counted in
\* HALF_OPEN, and a call with a zero estimate inside the new timeout was refused
C4_Witness ==
    /\ reopenTime # -1
    /\ cb.success_count = 1
    /\ cb.state = OPEN
    /\ ret.op = "can_request" /\ ret.tokens = 0 /\ ret.cost = 0
    /\ ret.result = FALSE
    /\ now - reopenTime <= cfg.recovery_timeout

\* C5, as claimed: the breaker goes from CLOSED to OPEN only on
\* failure_threshold failures in a row: a record_success while CLOSED
\* interrupts the run.
C5_OpensOnlyOnConsecutiveFailures ==
    [][ (cb.state = CLOSED /\ cb'.state = OPEN)
        => consec' >= cfg.failure_threshold ]_vars

\* C6: whatever the interleaving of can_request, record_success,
\* record_failure and get_stats, the state changes only along CLOSED -> OPEN,
\* OPEN -> HALF_OPEN, HALF_OPEN -> CLOSED and HALF_OPEN -> OPEN.
C6_OnlyLegalTransitions ==
    [][ cb'.state # cb.state
        => <<cb.state, cb'.state>> \in
              {<<CLOSED, OPEN>>, <<OPEN, HALF_OPEN>>,
               <<HALF_OPEN, CLOSED>>, <<HALF_OPEN, OPEN>>} ]_vars

\* the breaker has gone round the whole cycle and has opened again
C6_Witness ==
    /\ cb.state = OPEN
    /\ cb.stats.successful_requests >= 1
    /\ cb.failure_count < cb.stats.failed_requests
    /\ ret.op = "record_failure"

----------------------------------------------------------------------------
(* The quota gate's decisions *)

\* a step in which check_quota_compliance, or enforce_quota, has returned
CheckReturned == qret'.op = "check" /\ qret' # qret
EnforceReturned == qret'.op = "enforce" /\ qret' # qret

\* what the ledger holds when a check is made
DailyCostUsed == get_cost_since(ledger, now - DaySeconds)
HourlyTokensUsed == get_tokens_since(ledger, now - HourSeconds)
DailyTokensUsed == get_tokens_since(ledger, now - DaySeconds)
MonthlyCostUsed == get_cost_since(ledger, now - 30 * DaySeconds)

\* C7: a check returns BLOCKED iff the estimated cost exceeds the remaining
\* daily budget, or the estimated tokens exceed the remaining hourly tokens, or
\* the context utilization exceeds max_context_utilization; otherwise WARNING
\* iff the projected daily cost or the projected hourly tokens exceed
\* cost_alert_threshold of their limit, or the context utilization exceeds
\* 0.8; otherwise ALLOWED.
C7_DecisionTable ==
    [][ CheckReturned =>
        LET q == qret'.quota_check
            blocked ==
                \/ q.estimated_cost > policy.daily_cost_limit - DailyCostUsed
                \/ q.estimated_tokens > policy.hourly_token_limit - HourlyTokensUsed
                \/ q.context_utilization.num * policy.max_context_utilization.den
                       > policy.max_context_utilization.num * q.context_utilization.den
            warning ==
                \/ (DailyCostUsed + q.estimated_cost) * policy.cost_alert_threshold.den
                       > policy.cost_alert_threshold.num * policy.daily_cost_limit
                \/ (HourlyTokensUsed + q.estimated_tokens) * policy.cost_alert_threshold.den
                       > policy.cost_alert_threshold.num * policy.hourly_token_limit
                \/ q.context_utilization.num * 10 > 8 * q.context_utilization.den
        IN  /\ q.status = BLOCKED <=> blocked
            /\ q.status = WARNING <=> (~blocked /\ warning)
            /\ q.status = ALLOWED <=> (~blocked /\ ~warning)
            /\ q.context_utilization
                  = Ratio(qret'.request.context_tokens,
                          context_window(qret'.request.model)) ]_vars

\* a check was blocked on the context alone, with usage on record
C7_Witness ==
    /\ qret.op = "check"
    /\ qret.quota_check.status = BLOCKED
    /\ qret.quota_check.message = "Context utilization too high"
    /\ ledger # <<>>

\* the input-token counts C8 compares
InputTokenCounts == {0, 1000, 2000, 3000}

\* the status of a check with n input tokens, all else as in request r
StatusWith(r, n) ==
    check_quota_compliance(ledger, policy, now, r.model, n, r.output_tokens,
                           r.context_tokens).status

\* the requests C8 varies the input tokens of: each model, with and without
\* output tokens, with no context and with a context above 80% of the window
MonotoneRequests ==
    {r \in CheckRequests :
        r.input_tokens = 1000 /\ r.context_tokens \in {0, 102401}}

\* C8: for the same ledger, limits, model, output tokens and context tokens, a
\* check that is BLOCKED or WARNING with n input tokens is not ALLOWED with
\* more input tokens, and one that is BLOCKED stays BLOCKED.
C8_MonotoneInInputTokens ==
    \A r \in MonotoneRequests :
        LET status == [n \in InputTokenCounts |-> StatusWith(r, n)] IN
        \A n \in InputTokenCounts, m \in InputTokenCounts :
            n < m =>
                /\ status[n] # ALLOWED => status[m] # ALLOWED
                /\ status[n] = BLOCKED => status[m] = BLOCKED

\* with usage on record, one request is ALLOWED with no input tokens, WARNING
\* with more and BLOCKED with more still
C8_Witness ==
    /\ ledger # <<>>
    /\ \E r \in MonotoneRequests :
        \E n \in InputTokenCounts, m \in InputTokenCounts :
            /\ n < m
            /\ StatusWith(r, 0) = ALLOWED
            /\ StatusWith(r, n) = WARNING
            /\ StatusWith(r, m) = BLOCKED

C10_NoHardLimitExceeded ==
    [][ (CheckReturned /\ qret'.quota_check.status \in {ALLOWED, WARNING}) =>
        LET q == qret'.quota_check IN
        /\ DailyCostUsed + q.estimated_cost <= policy.daily_cost_limit
        /\ MonthlyCostUsed + q.estimated_cost <= policy.monthly_cost_limit
        /\ HourlyTokensUsed + q.estimated_tokens <= policy.hourly_token_limit
        /\ DailyTokensUsed + q.estimated_tokens <= policy.daily_token_limit
        /\ ~RatioGT(q.context_utilization, policy.max_context_utilization) ]_vars

----------------------------------------------------------------------------
(* The remaining budgets a check reports *)

\* the sum of field f over the rows of the ledger stamped after time t
RECURSIVE SumAfter(_, _, _)
SumAfter(i, f, t) ==
    IF i = 0 THEN 0
    ELSE (IF ledger[i].timestamp > t THEN ledger[i][f] ELSE 0) + SumAfter(i - 1, f, t)

\* C11: a check reports remaining_daily_budget = daily_cost_limit minus the
\* total_cost of the rows of the last 24 hours, and remaining_hourly_tokens =
\* hourly_token_limit minus the total_tokens of the rows of the last hour; with
\* 1.00 USD a day and one row of 1000 input tokens at 0.01 USD per 1k, the
\* remaining daily budget is 0.99 USD and a check estimated at 1.50 USD is
\* BLOCKED.
C11_RemainingBudgets ==
    [][ CheckReturned =>
        LET q == qret'.quota_check IN
        /\ q.remaining_daily_budget
              = policy.daily_cost_limit
                - SumAfter(Len(ledger), "total_cost", now - DaySeconds)
        /\ q.remaining_hourly_tokens
              = policy.hourly_token_limit
                - SumAfter(Len(ledger), "total_tokens", now - HourSeconds)
        /\ ( /\ policy.daily_cost_limit = 10000000
             /\ Len(ledger) = 1
             /\ ledger[1].model = "gpt-5"
             /\ ledger[1].input_tokens = 1000 /\ ledger[1].output_tokens = 0
             /\ now - ledger[1].timestamp < DaySeconds )
            => /\ q.remaining_daily_budget = 9900000
               /\ q.estimated_cost = 15000000 => q.status = BLOCKED ]_vars

\* the example: 0.99 USD remain and the check estimated at 1.50 USD was blocked
C11_Witness ==
    /\ qret.op = "check"
    /\ policy.daily_cost_limit = 10000000
    /\ Len(ledger) = 1 /\ ledger[1].total_cost = 100000
    /\ qret.quota_check.remaining_daily_budget = 9900000
    /\ qret.quota_check.estimated_cost = 15000000
    /\ qret.quota_check.status = BLOCKED

----------------------------------------------------------------------------
(* The breaker's hourly ceilings *)

\* the tokens and the cost accumulated in the current hourly window: nothing
\* once more than an hour has passed since the window began
WindowTokens ==
    IF now - cb.stats.last_reset > HourWindow THEN 0 ELSE cb.stats.total_tokens
WindowCost ==
    IF now - cb.stats.last_reset > HourWindow THEN 0 ELSE cb.stats.total_cost

\* C12: can_request(t, c) returns false, in every circuit state, whenever the
\* tokens of the current hourly window plus t exceed max_tokens_per_hour or its
\* cost plus c exceeds max_cost_per_hour; it returns true in CLOSED and in
\* HALF_OPEN when neither ceiling would be exceeded.
C12_CeilingsRefuse ==
    [][ CanRequestReturned =>
        LET over == \/ WindowTokens + ret'.tokens > cfg.max_tokens_per_hour
                    \/ WindowCost + ret'.cost > cfg.max_cost_per_hour
        IN  /\ over => ret'.result = FALSE
            /\ (~over /\ cb.state \in {CLOSED, HALF_OPEN}) => ret'.result = TRUE ]_vars

\* a call was refused while CLOSED on the cost ceiling alone
C12_Witness ==
    /\ cb.state = CLOSED
    /\ ret.op = "can_request" /\ ret.result = FALSE
    /\ ret.tokens = 0 /\ ret.cost = 1
    /\ cb.stats.total_tokens = 0 /\ cb.stats.total_cost = 1

----------------------------------------------------------------------------
(* The rate limiter's ceilings *)

\* the requests recorded in the window_seconds before now
RecordedInWindow(window_seconds) ==
    Cardinality({i \in DOMAIN rl.request_times :
                    rl.request_times[i] > now - window_seconds})

\* C13, as claimed: for one caller that calls wait_if_needed and then
\* record_request before each request, no 60-second window holds more than
\* requests_per_minute recorded requests, no 3600-second window holds more than
\* requests_per_hour, and wait_if_needed returns only once the limiter would
\* admit the request.
C13_BothCeilingsEnforced ==
    /\ RecordedInWindow(MinuteSeconds) <= rlcfg.requests_per_minute
    /\ RecordedInWindow(HourWindow) <= rlcfg.requests_per_hour
    /\ rlpc = "waited" =>
        /\ RecordedInWindow(MinuteSeconds) < rlcfg.requests_per_minute
        /\ RecordedInWindow(HourWindow) < rlcfg.requests_per_hour

----------------------------------------------------------------------------
(* The backoff wrapper's runs *)

\* the invocations of the wrapped function in the run so far
BackoffCalls == {i \in DOMAIN bolog : bolog[i].ev = "call"}

\* C14: the wrapper invokes the wrapped call at least once and at most
\* max_retries + 1 times, returns the first successful result with no further
\* invocation or sleep, sleeps exactly once between two consecutive attempts
\* and not after the last, and when every attempt fails it raises the exception
\* of the last attempt; a run takes at most 2 * max_retries + 1 calls and sleeps.
C14_BackoffTerminates ==
    bo.pc # "idle" =>
        /\ Cardinality(BackoffCalls) <= bo.config.max_retries + 1
        /\ Len(bolog) <= 2 * bo.config.max_retries + 1
        /\ \A i \in DOMAIN bolog :
            /\ bolog[i].ev = (IF i % 2 = 1 THEN "call" ELSE "sleep")
            /\ (i < Len(bolog) /\ bolog[i].ev = "call") => bolog[i].out = "Exception"
        /\ bo.pc = "sleep" => bolog[Len(bolog)].ev = "call"
        /\ (bolog # <<>> /\ bolog[Len(bolog)].ev = "call"
                /\ bolog[Len(bolog)].out = "returns") => bo.pc = "done"
        /\ bo.pc = "done" =>
            /\ bolog # <<>>
            /\ LET last == bolog[Len(bolog)] IN
                /\ last.ev = "call"
                /\ last.out = "returns"
                    => bo.outcome = [kind |-> "returned", value |-> last.attempt]
                /\ last.out # "returns"
                    => bo.outcome = [kind |-> "raised", value |-> last.attempt]

\* every one of three attempts failed: two sleeps, and the exception of the
\* third attempt was raised
C14_Witness ==
    /\ bo.pc = "done"
    /\ bo.config.max_retries = 2
    /\ Len(bolog) = 5
    /\ bo.outcome = [kind |-> "raised", value |-> 2]
    /\ bolog[5].out = "Exception"

----------------------------------------------------------------------------
(* Pricing *)

\* a step in which record_usage has inserted a row
RecordReturned == qret'.op = "record_usage" /\ Len(ledger') = Len(ledger) + 1

\* the highest price of the table, for the input or the output tokens
HighestRate(f) ==
    CHOOSE p \in {MODEL_COSTS[m][f] : m \in DOMAIN MODEL_COSTS} :
        \A m \in DOMAIN MODEL_COSTS : MODEL_COSTS[m][f] <= p

\* C15, as claimed: the ledger prices a row at (input_tokens / 1000) x input
\* rate plus (output_tokens / 1000) x output rate, with the rates of the
\* model's entry of the price table and, for a model the table does not hold,
\* the most expensive rates of the table (0.04 and 0.12 USD per 1k tokens).
C15_LedgerPricing ==
    [][ RecordReturned =>
        LET r == qret'.cost_record
            known == r.model \in DOMAIN MODEL_COSTS
            input_rate == IF known THEN MODEL_COSTS[r.model].input_cost_per_1k
                          ELSE HighestRate("input_cost_per_1k")
            output_rate == IF known THEN MODEL_COSTS[r.model].output_cost_per_1k
                           ELSE HighestRate("output_cost_per_1k")
        IN  /\ HighestRate("input_cost_per_1k") = 400
            /\ HighestRate("output_cost_per_1k") = 1200
            /\ r.input_cost = r.input_tokens * input_rate
            /\ r.output_cost = r.output_tokens * output_rate
            /\ r.total_cost = r.input_cost + r.output_cost ]_vars

\* C16, as claimed: for every model, priced or not, and every pair of token
\* counts, the estimate of the quota gate is the total cost and the total
\* tokens the ledger computes for those counts.
C16_EstimatorMatchesLedger ==
    [][ CheckReturned =>
        LET r == qret'.request
            usage == TokenUsage(r.input_tokens, r.output_tokens, 0, 0,
                                context_window(r.model))
        IN  /\ qret'.quota_check.estimated_cost
                  = calculate_cost(r.model, usage).total_cost
            /\ qret'.quota_check.estimated_tokens = usage.total_tokens ]_vars

----------------------------------------------------------------------------
(* Recording *)

\* a step in which record_usage has returned or raised
RecordUsageCalled == qret'.op = "record_usage" /\ now' = now

\* C17: in every ledger state, over the limits or not, record_usage appends
\* exactly one row and returns it without raising; the budgets are evaluated
\* after the insert, so that they count the new row, and the evaluation only
\* logs.
C17_RecordingNeverBlocked ==
    [][ RecordUsageCalled =>
        /\ qret'.raised = "none"
        /\ ledger' = Append(ledger, qret'.cost_record)
        /\ policy' = policy
        /\ "Hourly token limit exceeded" \in qret'.logged
            <=> (SumAfter(Len(ledger), "total_tokens", now - HourSeconds)
                 + qret'.cost_record.total_tokens > policy.hourly_token_limit)
        /\ "Daily cost limit exceeded" \in qret'.logged
            <=> (SumAfter(Len(ledger), "total_cost", now - DaySeconds)
                 + qret'.cost_record.total_cost > policy.daily_cost_limit)
        /\ "Daily token limit exceeded" \in qret'.logged
            <=> (SumAfter(Len(ledger), "total_tokens", now - DaySeconds)
                 + qret'.cost_record.total_tokens > policy.daily_token_limit) ]_vars

\* a second row was recorded in an hour whose token limit the first row had
\* already exceeded, and the overage was logged
C17_Witness ==
    /\ qret.op = "record_usage"
    /\ Len(ledger) = 2
    /\ ledger[2] = qret.cost_record
    /\ ledger[1].total_tokens > policy.hourly_token_limit
    /\ now - ledger[1].timestamp < HourSeconds
    /\ "Hourly token limit exceeded" \in qret.logged

----------------------------------------------------------------------------
(* Cleanup *)

\* a step in which cleanup_old_records has returned
CleanupReturned == qret'.op = "cleanup" /\ now' = now

\* C18: cleanup(retention_days) deletes exactly the rows stamped strictly
\* before now - retention_days, leaves the other rows as they are and returns
\* the number deleted; a second call with the same argument at the same clock
\* value deletes nothing, returns 0 and leaves the ledger unchanged.
C18_CleanupExactAndIdempotent ==
    [][ CleanupReturned =>
        LET cutoff == now - qret'.retention_days * DaySeconds
            again == cleanup_old_records(ledger', now', qret'.retention_days)
        IN  /\ ledger' = SelectSeq(ledger, LAMBDA r : ~(r.timestamp < cutoff))
            /\ qret'.deleted_count
                  = Cardinality({i \in DOMAIN ledger : ledger[i].timestamp < cutoff})
            /\ again.deleted_count = 0
            /\ again.rows = ledger' ]_vars

\* of two rows, cleanup deleted the one stamped before the cutoff and kept the
\* one stamped at the cutoff
C18_Witness ==
    /\ qret.op = "cleanup"
    /\ qret.deleted_count = 1
    /\ Len(ledger) = 1
    /\ ledger[1].timestamp = now - qret.retention_days * DaySeconds

----------------------------------------------------------------------------
(* Credentials in the audit log *)

\* the value holds, at some depth, an entry under a sensitive key
RECURSIVE HoldsSensitiveKey(_)
HoldsSensitiveKey(value) ==
    /\ value.kind = "dict"
    /\ \E k \in DOMAIN value.items :
        \/ is_sensitive_key(k)
        \/ HoldsSensitiveKey(value.items[k])

\* what a row holds of the free-form data its caller supplied
CallerSupplied(row) ==
    CASE row.event_type = "system_config_change"
            -> {row.event_data.old_value, row.event_data.new_value}
      [] row.event_type = "quota_violation" -> {row.event_data.details}
      [] row.event_type = "evaluation_start" -> {row.metadata}
      [] row.event_type = "evaluation_complete" -> {row.event_data.grades_summary}

\* C19, as claimed: no row written by log_config_change, log_quota_violation,
\* log_evaluation_start or log_evaluation_complete holds, at any depth of the
\* data the caller supplied, an entry whose key matches a sensitivity keyword.
C19_NoCredentialPersisted ==
    \A i \in DOMAIN audit :
        \A value \in CallerSupplied(audit[i]) : ~HoldsSensitiveKey(value)

----------------------------------------------------------------------------
(* Store failures *)

\* the errors meant to reach a caller of the governance API
GovernanceErrors == {"QuotaException", "CostLimitExceeded", "CircuitBreakerOpen"}

\* C20, as claimed: whatever the store does, record_usage, the quota check and
\* the audit append raise nothing but a quota-violation, cost-limit-exceeded or
\* circuit-open error.
C20_StoreFailuresNotPropagated ==
    /\ qret.op # "init" => qret.raised \in GovernanceErrors \cup {"none"}
    /\ aret.op # "init" => aret.raised \in GovernanceErrors \cup {"none"}

----------------------------------------------------------------------------
(* The errors of rate_limited *)

\* C21, as claimed: a wrapped call the breaker refuses fails with
\* CircuitBreakerOpen only if, when can_request ran, the breaker was OPEN and
\* the recovery timeout had not elapsed; and it fails with CostLimitExceeded
\* whenever can_request refused because of the hourly token or cost ceiling,
\* whatever the circuit state and whatever the other worker does meanwhile.
C21_RefusalErrors ==
    \A w \in Workers :
        (wr[w].pc = "done" /\ wr[w].cause # "none")
        => /\ wr[w].raised = "CircuitBreakerOpen"
                => (wr[w].state = OPEN /\ ~wr[w].elapsed)
           /\ wr[w].cause = "ceiling" => wr[w].raised = "CostLimitExceeded"

----------------------------------------------------------------------------
(* The compliance score *)

\* the weighted sum 0.1 v + 0.05 a + 0.02 d of the last call, in hundredths
Penalty == 10 * pin.violations + 5 * pin.alerts + 2 * pin.degradations

\* one hundred times the score the reals give, and one hundred times the
\* score returned
ExactScore100 == BMul(FloatOne, IF Penalty >= 100 THEN 0 ELSE 100 - Penalty)
Score100 == BMul(pout.mag, 100)

\* one hundred times 2^-50
Tolerance100 == BMul([i \in 1..(UnitExponent - 49) |->
                         IF i = UnitExponent - 49 THEN 1 ELSE 0], 100)

\* the score returned is within 2^-50 of the score the reals give
ScoreNearExact ==
    IF BLess(Score100, ExactScore100)
    THEN ~BLess(Tolerance100, BSub(ExactScore100, Score100))
    ELSE ~BLess(Tolerance100, BSub(Score100, ExactScore100))

\* the score returned is in [0, 1]
ScoreInRange == ~pout.neg /\ ~BLess(FloatOne, pout.mag)

\* C22, as claimed: the score is in [0, 1], it is the clamped value of
\* 1 - 0.1 v - 0.05 a - 0.02 d (up to the rounding of the doubles when that
\* value is positive), it is 0 whenever the weighted sum is at least 1, and it
\* is 1 when all counts are 0.
C22_ScoreClamped ==
    pin.op = "compliance_score"
    => /\ ScoreInRange
       /\ ScoreNearExact
       /\ Penalty >= 100 => pout.mag = <<>>
       /\ Penalty = 0 => pout.mag = FloatOne

\* C22, amended: the score is in [0, 1] and within 2^-50 of the clamped value
\* of 1 - 0.1 v - 0.05 a - 0.02 d; it is exactly 0 whenever the weighted sum
\* is more than 1 and exactly 1 when all counts are 0.  When the weighted sum
\* is exactly 1 the score can be a positive number below 2^-50.
C22_ScoreClampedUpToRounding ==
    pin.op = "compliance_score"
    => /\ ScoreInRange
       /\ ScoreNearExact
       /\ Penalty > 100 => pout.mag = <<>>
       /\ Penalty = 0 => pout.mag = FloatOne

\* 2 violations, 4 alerts and 30 degradations weigh exactly 1, and the score
\* returned is positive
C22_Witness ==
    /\ pin.op = "compliance_score"
    /\ pin.violations = 2 /\ pin.alerts = 4 /\ pin.degradations = 30
    /\ pout.mag # <<>>
    /\ ~pout.neg

----------------------------------------------------------------------------
(* Performance tiers *)

\* the tiers in order
TierRank ==
    (OPTIMAL :> 0) @@ (GOOD :> 1) @@ (DEGRADED :> 2) @@ (POOR :> 3) @@ (CRITICAL :> 4)

\* the boundary table, lower bounds inclusive
TierOfTable(u) ==
    IF u < 600 THEN OPTIMAL
    ELSE IF u < 750 THEN GOOD
    ELSE IF u < 900 THEN DEGRADED
    ELSE IF u < 950 THEN POOR
    ELSE CRITICAL

\* C23: the tier follows the boundary table with inclusive lower bounds
\* (OPTIMAL below 0.60, GOOD on [0.60, 0.75), DEGRADED on [0.75, 0.90), POOR on
\* [0.90, 0.95), CRITICAL from 0.95 up), so 0.60 / 0.75 / 0.90 / 0.95 map to
\* GOOD / DEGRADED / POOR / CRITICAL and 0.599 to OPTIMAL, and no smaller
\* utilization has a higher tier.
C23_TierTable ==
    pin.op = "assess_performance_tier"
    => LET u == pin.context_utilization IN
       /\ pout.tier = TierOfTable(u)
       /\ u = 599 => pout.tier = OPTIMAL
       /\ u = 600 => pout.tier = GOOD
       /\ u = 750 => pout.tier = DEGRADED
       /\ u = 900 => pout.tier = POOR
       /\ u = 950 => pout.tier = CRITICAL
       /\ \A v \in 0..u :
            TierRank[assess_performance_tier(v)] <= TierRank[pout.tier]

\* the monitor was asked about a utilization of exactly 0.60 and answered GOOD
C23_Witness ==
    /\ pin.op = "assess_performance_tier"
    /\ pin.context_utilization = 600
    /\ pout.tier = GOOD

----------------------------------------------------------------------------
(* The breaker's hourly window *)

\* what the calls admitted in the 3600 seconds from the i-th admitted call on
\* add up to, for f = "tokens" or "cost"
RECURSIVE AdmittedFrom(_, _, _)
AdmittedFrom(i, j, f) ==
    IF j > Len(admitted) THEN 0
    ELSE (IF admitted[j].time < admitted[i].time + HourWindow
          THEN admitted[j][f] ELSE 0)
         + AdmittedFrom(i, j + 1, f)

\* C24, as claimed: for one caller whose usage equals its estimates, the
\* tokens can_request admits within any 3600 seconds never exceed
\* max_tokens_per_hour, and the cost never exceeds max_cost_per_hour.
C24_RollingWindow ==
    \A i \in DOMAIN admitted :
        /\ AdmittedFrom(i, i, "tokens") <= cfg.max_tokens_per_hour
        /\ AdmittedFrom(i, i, "cost") <= cfg.max_cost_per_hour

----------------------------------------------------------------------------
(* What one invocation of a wrapped function calls *)

\* C25, as claimed: an invocation whose can_request returns false calls
\* nothing else and raises; any other invocation calls wait_if_needed,
\* record_request and the function once each, in this order, then
\* record_success if the function returned and record_failure, re-raising, if
\* it raised.
C25_AdmittedCallsAccountedOnce ==
    \A w \in Workers :
        wr[w].pc = "done"
        => IF wr[w].cause # "none"
           THEN wr[w].trace = <<"can_request", "raise">>
           ELSE IF wr[w].outcome = "returns"
           THEN wr[w].trace = <<"can_request", "wait_if_needed", "record_request",
                                "func", "record_success", "return">>
           ELSE wr[w].trace = <<"can_request", "wait_if_needed", "record_request",
                                "func", "record_failure", "raise">>

----------------------------------------------------------------------------
(* The data-model invariants of a CostRecord *)

\* C28, as claimed: the CostRecord record_usage returns has total_tokens =
\* input_tokens + output_tokens, context_utilization = context_window_used /
\* context_window_limit of the TokenUsage passed, and total_cost = input_cost +
\* output_cost, and the row written holds the same values.
C28_RecordInvariants ==
    qret.op = "record_usage"
    => LET cr == qret.cost_record IN
       /\ cr.total_tokens = cr.input_tokens + cr.output_tokens
       /\ cr.context_utilization.num * cr.context_window_limit
            = cr.context_window_used * cr.context_utilization.den
       /\ cr.total_cost = cr.input_cost + cr.output_cost
       /\ ledger[Len(ledger)] = cr

----------------------------------------------------------------------------
(* The breaker's counters *)

\* C29: whenever the breaker is OPEN or HALF_OPEN its failure counter is at
\* least failure_threshold, while it is HALF_OPEN its success counter is below
\* success_threshold, and the failure counter goes down, to 0, only in a step
\* that takes the breaker from HALF_OPEN to CLOSED.
C29_CountersAndStates ==
    /\ [](/\ cb.state \in {OPEN, HALF_OPEN}
                => cb.failure_count >= cfg.failure_threshold
          /\ cb.state = HALF_OPEN => cb.success_count < cfg.success_threshold)
    /\ [][ cb'.failure_count < cb.failure_count
            => /\ cb'.failure_count = 0
               /\ cb.state = HALF_OPEN
               /\ cb'.state = CLOSED ]_vars

\* the breaker is HALF_OPEN after two failures and one success of the two it
\* needs
C29_Witness ==
    /\ cb.state = HALF_OPEN
    /\ cfg.failure_threshold = 2 /\ cb.failure_count = 2
    /\ cfg.success_threshold = 2 /\ cb.success_count = 1

----------------------------------------------------------------------------
(* Recovery *)

\* C30: once failures have stopped, an OPEN breaker does not stay OPEN: if
\* time keeps passing, the caller keeps calling can_request with estimates no
\* larger than the ceilings and every admitted call is followed by
\* record_success, the breaker is eventually CLOSED with its failure counter
\* at 0.
C30_EventuallyClosed ==
    (cb.state = OPEN) ~> (cb.state = CLOSED /\ cb.failure_count = 0)

\* the breaker has failed as often as it ever will, has needed two successes
\* to recover and is CLOSED again with its failure counter at 0
C30_Witness ==
    /\ cb.state = CLOSED /\ cb.failure_count = 0
    /\ cb.stats.failed_requests = MaxFailures
    /\ cfg.success_threshold = 2 /\ cb.success_count = 2

----------------------------------------------------------------------------
(* Worker threads *)

\* the cost of the first n rows of the ledger
RECURSIVE CostOfFirst(_)
CostOfFirst(n) ==
    IF n = 0 THEN 0 ELSE ledger[n].total_cost + CostOfFirst(n - 1)

\* the tokens of the first n rows of the ledger
RECURSIVE TokensOfFirst(_)
TokensOfFirst(n) ==
    IF n = 0 THEN 0 ELSE ledger[n].total_tokens + TokensOfFirst(n - 1)

\* C26: the gate is advisory under concurrency.  A check that runs after the
\* other workers' records are in the ledger is BLOCKED when the rows it finds,
\* all of the last hour, and its own estimate together exceed the daily cost
\* limit or the hourly token limit; two checks that run from the same rows may
\* both pass and the two records then exceed the limit (C26_Witness).
C26_SequentialCheckBlocks ==
    \A w \in Workers :
        (/\ th[w].job = "gate"
         /\ \/ CostOfFirst(th[w].seen) + th[w].estimated_cost
                    > policy.daily_cost_limit
            \/ TokensOfFirst(th[w].seen) + th[w].estimated_tokens
                    > policy.hourly_token_limit)
        => th[w].status = BLOCKED

\* both workers' checks passed from the same rows, both have recorded what
\* they estimated, and the ledger's cost of the last 24 hours exceeds the
\* daily limit
C26_Witness ==
    /\ \A w \in Workers :
        /\ th[w].job = "gate"
        /\ th[w].status \in {ALLOWED, WARNING}
        /\ th[w].pc = "idle"
        /\ th[w].row > 0
        /\ th[w].record_cost = th[w].estimated_cost
    /\ th["w1"].seen = th["w2"].seen
    /\ Len(ledger) = th["w1"].seen + 2
    /\ get_cost_since(ledger, now - DaySeconds) > policy.daily_cost_limit

\* C27: no update is lost.  Once every call has returned, the ledger holds one
\* row per record_usage call and its aggregates are the sums over the calls,
\* and the breaker's successful_requests, total_tokens and total_cost have
\* grown by the sums over the record_success calls.
C27_NoLostUpdate ==
    (\A w \in Workers : th[w].pc = "idle")
    => /\ Len(ledger) = booked.records
       /\ get_cost_since(ledger, StartTime - 1) = booked.cost
       /\ get_tokens_since(ledger, StartTime - 1) = booked.tokens
       /\ cb.stats.successful_requests = booked.successes
       /\ cb.stats.total_tokens = booked.tokens_used
       /\ cb.stats.total_cost = booked.breaker_cost

\* two record_usage calls and two record_success calls have returned, and one
\* of each was begun while the other thread was inside the same method
C27_Witness ==
    /\ \A w \in Workers : th[w].pc = "idle"
    /\ booked.records = 2 /\ booked.usage_overlaps >= 1
    /\ booked.successes = 2 /\ booked.success_overlaps >= 1
    /\ booked.tokens_used = 2 /\ booked.breaker_cost = 2

====
